---- MODULE Spec2Model ----
(***************************************************************************)
(* Geometry pipeline of the ring generators (ring-emboss, ring-blender,    *)
(* ring-flow): ring body construction, cylindrical text wrap, arc          *)
(* allocation, boundary stitching, mesh merging, volume estimation and the *)
(* run() pipeline that chains them.                                        *)
(*                                                                         *)
(* A mesh is a record [verts, faces]; faces hold 0-based vertex indices as *)
(* in the Python sources, so vertex i of a face is verts[i + 1].           *)
(***************************************************************************)
EXTENDS Integers, Sequences, FiniteSets, TLC

VARIABLES
    pc,            \* position of the component under analysis
    config,        \* the configuration the generator works from
    ring_obj,      \* the ring mesh object ("Ring" / "PartialRing")
    text_obj,      \* the text mesh object ("Text")
    arc,           \* self.text_start_angle / self.text_end_angle
    merge_in,      \* the objects handed to combine_ring_and_text*
    combined,      \* all_verts / all_faces and the resulting "FinalRing"
    log_messages,  \* self.log_messages, as <<level, message>> pairs
    font_mesh,     \* what the font collaborator renders for the text
    scan,          \* the locals of the boundary scan of the wedge builder
    exit_code,     \* <<>> while run() executes, then <<its return value>>
    output,        \* the files written: the STL mesh and the volume report
    scene          \* bpy.data.objects: the objects of the Blender process

vars == <<pc, config, ring_obj, text_obj, arc, merge_in, combined,
          log_messages, font_mesh, scan, exit_code, output, scene>>

\* no STL file and no report written
NoOutput == [stl |-> <<>>, report |-> <<>>]

\* the state only run() and the wedge builder touch
run_vars == <<scan, exit_code, output, scene>>

\* bpy.data.objects.new(name, ...): Blender gives the object the name asked
\* for, or the name with a numeric suffix when an object has it already
NewName(objects, name) ==
    IF \A o \in objects : o.name # name THEN name ELSE name \o ".001"

\* an object of the scene: its name and the request that created it
Object(name, owner) == [name |-> name, owner |-> owner]

\* collection.objects.link of a new object created by this request
Link(objects, name) == objects \cup {Object(NewName(objects, name), "self")}

\* the Python reference this request holds to the object still refers to a
\* live object (using a removed object raises ReferenceError)
Alive(objects, obj) == Object(obj.name, "self") \in objects

\* ------------------------------------------------------------------ bounds
MaxRadial   == 6      \* largest radial_segments drawn for the full ring
MaxVertical == 4      \* largest vertical_segments drawn

None == [verts |-> <<>>, faces |-> <<>>, name |-> "None"]

\* ------------------------------------------------------- exact arithmetic
\* Rationals are pairs <<n, d>> with d > 0, kept in lowest terms.
Abs(x) == IF x < 0 THEN -x ELSE x

RECURSIVE Gcd(_, _)
Gcd(a, b) == IF b = 0 THEN a ELSE Gcd(b, a % b)

Rat(n, d) ==
    LET s == IF d < 0 THEN -1 ELSE 1
        g == Gcd(Abs(n), Abs(d))
    IN  <<(s * n) \div g, (s * d) \div g>>

RAdd(a, b) == Rat(a[1] * b[2] + b[1] * a[2], a[2] * b[2])
RNeg(a)    == <<-a[1], a[2]>>
RSub(a, b) == RAdd(a, RNeg(b))
RMul(a, b) == Rat(a[1] * b[1], a[2] * b[2])
RLeq(a, b) == a[1] * b[2] <= b[1] * a[2]
RLt(a, b)  == a[1] * b[2] < b[1] * a[2]

\* ------------------------------------------------------------ mesh helpers
Range(s) == {s[i] : i \in 1..Len(s)}

\* the directed edges a face traverses, in winding order
DirEdges(f) == {<<f[i], f[(i % Len(f)) + 1]>> : i \in 1..Len(f)}

HasEdge(f, a, b) == <<a, b>> \in DirEdges(f) \/ <<b, a>> \in DirEdges(f)

\* for every vertex index, the faces that reference it
FacesAt(mesh) ==
    [v \in 0..(Len(mesh.verts) - 1) |->
        {i \in 1..Len(mesh.faces) : v \in Range(mesh.faces[i])}]

\* number of faces an undirected edge belongs to
EdgeUse(mesh, at, a, b) ==
    Cardinality({i \in at[a] : HasEdge(mesh.faces[i], a, b)})

\* every undirected edge belongs to exactly 2 faces
Watertight(mesh) ==
    LET at == FacesAt(mesh)
    IN  \A i \in 1..Len(mesh.faces) :
            \A e \in DirEdges(mesh.faces[i]) :
                EdgeUse(mesh, at, e[1], e[2]) = 2

UndirEdges(mesh) ==
    UNION {{{e[1], e[2]} : e \in DirEdges(mesh.faces[i])} :
              i \in 1..Len(mesh.faces)}

EulerCharacteristic(mesh) ==
    Len(mesh.verts) - Cardinality(UndirEdges(mesh)) + Len(mesh.faces)

\* two faces sharing an edge traverse it in opposite directions
CoherentWinding(mesh) ==
    LET at == FacesAt(mesh)
    IN  \A i \in 1..Len(mesh.faces) :
            \A e \in DirEdges(mesh.faces[i]) :
                \A j \in at[e[1]] \ {i} :
                    <<e[1], e[2]>> \notin DirEdges(mesh.faces[j])

\* ------------------------------------------------- full ring (ring-emboss)
\* vertex of level v_idx on the outer/inner circle at step r_idx of R
RingVertex(diameter, r_idx, R, v_idx, V, length) ==
    [radius |-> Rat(diameter, 2),
     turn   |-> Rat(r_idx, R),                       \* angle = 2*pi*turn
     z      |-> RAdd(Rat(-length, 2), Rat(length * v_idx, V))]

create_ring_verts(cfg) ==
    LET R == cfg.ring.radial_segments
        V == cfg.ring.vertical_segments
    IN  [k \in 1..((V + 1) * 2 * R) |->
            LET v_idx == (k - 1) \div (2 * R)
                j     == (k - 1) % (2 * R)
            IN  IF j < R
                THEN RingVertex(cfg.ring.outer_diameter, j, R, v_idx, V,
                                cfg.ring.length)
                ELSE RingVertex(cfg.ring.inner_diameter, j - R, R, v_idx, V,
                                cfg.ring.length)]

\* the last quad of a level does not wrap round to the level's first vertex
OuterFace_NoWrap(ring_offset, next_ring_offset, r_idx, R) ==
    LET next_r == r_idx + 1
    IN  <<ring_offset + r_idx, ring_offset + next_r,
          next_ring_offset + next_r, next_ring_offset + r_idx>>

OuterFace(ring_offset, next_ring_offset, r_idx, R) ==
    LET next_r == (r_idx + 1) % R
    IN  <<ring_offset + r_idx, ring_offset + next_r,
          next_ring_offset + next_r, next_ring_offset + r_idx>>

\* the inner surface wound like the outer one
InnerFace_OuterWinding(ring_offset, next_ring_offset, r_idx, R) ==
    LET next_r == (r_idx + 1) % R
    IN  <<ring_offset + R + r_idx, ring_offset + R + next_r,
          next_ring_offset + R + next_r, next_ring_offset + R + r_idx>>

InnerFace(ring_offset, next_ring_offset, r_idx, R) ==
    LET next_r == (r_idx + 1) % R
    IN  <<ring_offset + R + r_idx, next_ring_offset + R + r_idx,
          next_ring_offset + R + next_r, ring_offset + R + next_r>>

TopFace(top_offset, r_idx, R) ==
    LET next_r == (r_idx + 1) % R
    IN  <<top_offset + r_idx, top_offset + next_r,
          top_offset + R + next_r, top_offset + R + r_idx>>

BottomFace(r_idx, R) ==
    LET next_r == (r_idx + 1) % R
    IN  <<r_idx, R + r_idx, R + next_r, next_r>>

create_ring_faces(R, V) ==
    LET verts_per_ring == R * 2
        side == [k \in 1..(V * 2 * R) |->
                    LET v_idx == (k - 1) \div (2 * R)
                        j     == (k - 1) % (2 * R)
                        ring_offset      == v_idx * verts_per_ring
                        next_ring_offset == (v_idx + 1) * verts_per_ring
                    IN  IF j < R
                        THEN OuterFace(ring_offset, next_ring_offset, j, R)
                        ELSE InnerFace(ring_offset, next_ring_offset, j - R, R)]
        top    == [k \in 1..R |-> TopFace(V * verts_per_ring, k - 1, R)]
        bottom == [k \in 1..R |-> BottomFace(k - 1, R)]
    IN  side \o top \o bottom

create_ring(cfg) ==
    [verts |-> create_ring_verts(cfg),
     faces |-> create_ring_faces(cfg.ring.radial_segments,
                                 cfg.ring.vertical_segments),
     name  |-> "Ring"]

\* ------------------------------------------------ full ring (ring-blender)
vertices == 256       \* segment count fixed by ring-blender create_ring

create_ring_blender(cfg) ==
    LET n == vertices
    IN  [verts |-> [k \in 1..(4 * n) |->
                      LET lvl == (k - 1) \div (2 * n)
                          j   == (k - 1) % (2 * n)
                      IN  [radius |-> IF j < n
                                      THEN Rat(cfg.ringOuterDiameter, 2)
                                      ELSE Rat(cfg.ringInnerDiameter, 2),
                           turn   |-> Rat(j % n, n),
                           z      |-> IF lvl = 0 THEN Rat(-cfg.ringLength, 2)
                                                 ELSE Rat(cfg.ringLength, 2)]],
         faces |-> [k \in 1..n |->
                      LET i == k - 1  next_i == (i + 1) % n
                      IN  <<i, next_i, n * 2 + next_i, n * 2 + i>>]
                   \o [k \in 1..n |->
                      LET i == k - 1  next_i == (i + 1) % n
                      IN  <<n + i, n * 3 + i, n * 3 + next_i, n + next_i>>]
                   \o [k \in 1..n |->
                      LET i == k - 1  next_i == (i + 1) % n
                      IN  <<n * 2 + i, n * 2 + next_i, n * 3 + next_i,
                            n * 3 + i>>]
                   \o [k \in 1..n |->
                      LET i == k - 1  next_i == (i + 1) % n
                      IN  <<i, n + i, n + next_i, next_i>>],
         name  |-> "Ring"]

\* ------------------------------------------------------ ring specification
Log(level, message) == <<level, message>>

EmbossRingConfigs ==
    [variant : {"emboss"},
     ring    : [inner_diameter    : {16, 32},
                outer_diameter    : {40},
                length            : {5, 6},
                radial_segments   : 3..MaxRadial,
                vertical_segments : 1..MaxVertical]]

BlenderRingConfigs ==
    [variant           : {"blender"},
     ringInnerDiameter : {16},
     ringOuterDiameter : {20},
     ringLength        : {5, 6}]

InitRing ==
    /\ pc = "config"
    /\ config \in EmbossRingConfigs \cup BlenderRingConfigs
    /\ ring_obj = None
    /\ text_obj = None
    /\ arc = <<>>
    /\ merge_in = <<>>
    /\ combined = None
    /\ log_messages = <<>>
    /\ font_mesh = None
    /\ scan = <<>>
    /\ exit_code = <<>>
    /\ output = NoOutput
    /\ scene = {}

CreateRing ==
    /\ pc = "config"
    /\ config.variant = "emboss"
    /\ ring_obj' = [create_ring(config) EXCEPT !.name = NewName(scene, @)]
    /\ scene' = Link(scene, "Ring")
    /\ log_messages' = log_messages \o
           <<Log("INFO", "Creating ring mesh"), Log("INFO", "Created ring")>>
    /\ pc' = "ring"
    /\ UNCHANGED <<config, text_obj, arc, merge_in, combined, font_mesh>>
    /\ UNCHANGED <<scan, exit_code, output>>

CreateRingBlender ==
    /\ pc = "config"
    /\ config.variant = "blender"
    /\ ring_obj' = [create_ring_blender(config)
                        EXCEPT !.name = NewName(scene, @)]
    /\ scene' = Link(scene, "Ring")
    /\ log_messages' = Append(log_messages, Log("INFO", "Created ring"))
    /\ pc' = "ring"
    /\ UNCHANGED <<config, text_obj, arc, merge_in, combined, font_mesh>>
    /\ UNCHANGED <<scan, exit_code, output>>

NextRing == CreateRing \/ CreateRingBlender

SpecRing == InitRing /\ [][NextRing]_vars

\* C1: a full-circle ring built by create_ring is watertight (every
\* undirected edge belongs to exactly 2 faces) and has Euler characteristic
\* vertices - edges + faces = 0.
FullRingWatertight ==
    pc = "ring" =>
        /\ Watertight(ring_obj)
        /\ EulerCharacteristic(ring_obj) = 0

FullRingBuilt ==
    /\ pc = "ring"
    /\ config.variant = "emboss"
    /\ config.ring.vertical_segments > 1
    /\ Len(ring_obj.faces) =
          2 * config.ring.radial_segments * (config.ring.vertical_segments + 1)

\* C3: in the full ring every edge shared by two faces is traversed in
\* opposite directions by the two faces (coherent winding across the outer,
\* inner, top and bottom families).
FullRingCoherent ==
    pc = "ring" => CoherentWinding(ring_obj)

FullRingAllFamilies ==
    /\ pc = "ring"
    /\ config.variant = "emboss"
    /\ config.ring.radial_segments = 3
    /\ config.ring.vertical_segments = 2
    /\ Len(ring_obj.verts) = 18

\* ------------------------------------------------------------ text meshes
MaxColumns == 3       \* most vertex columns a rendered text has

\* x positions (mm) at which the rendered glyph outline has vertices
XPositions == {0, 3, 5, 12, 14}

\* pi, as the rational 355/113 (exact for the comparisons made within the
\* bounds: no ratio compared with it has a denominator of 113 or more)
Pi == <<355, 113>>

RECURSIVE SortedSeq(_)
SortedSeq(S) ==
    IF S = {} THEN <<>>
    ELSE LET m == CHOOSE x \in S : \A y \in S : x <= y
         IN  <<m>> \o SortedSeq(S \ {m})

Reverse(f) == [i \in 1..Len(f) |-> f[Len(f) + 1 - i]]

\* The mesh bpy.ops.object.convert leaves after the -90 degree rotation about
\* X: an extruded bar with vertices at the given x columns, the extrusion
\* (+-depth) along y and the glyph height (+-half_height) along z.
FlatText(columns, depth, half_height) ==
    LET n == Len(columns)
        corner(k) == <<IF k \in {1, 2} THEN depth ELSE -depth,
                       IF k \in {2, 3} THEN half_height ELSE -half_height>>
    IN  [verts |-> [j \in 1..(4 * n) |->
                      LET i == (j - 1) \div 4
                          k == (j - 1) % 4
                      IN  [frame |-> "flat",
                           co    |-> <<Rat(columns[i + 1], 1),
                                       Rat(corner(k)[1], 1),
                                       Rat(corner(k)[2], 1)>>]],
         faces |-> <<<<0, 1, 2, 3>>>>
                   \o [j \in 1..(4 * (n - 1)) |->
                         LET i  == (j - 1) \div 4
                             k  == (j - 1) % 4
                             k2 == (k + 1) % 4
                         IN  <<4 * i + k, 4 * (i + 1) + k,
                               4 * (i + 1) + k2, 4 * i + k2>>]
                   \o <<<<4 * (n - 1) + 3, 4 * (n - 1) + 2,
                          4 * (n - 1) + 1, 4 * (n - 1)>>>>,
         name  |-> "Text"]

FontMeshes ==
    {FlatText(SortedSeq(C), 1, 2) :
        C \in {D \in SUBSET XPositions :
                  Cardinality(D) >= 1 /\ Cardinality(D) <= MaxColumns}}

\* min / max of one coordinate over the bound_box of a mesh
RMin(S) == CHOOSE a \in S : \A b \in S : RLeq(a, b)
RMax(S) == CHOOSE a \in S : \A b \in S : RLeq(b, a)
Coords(mesh, c) == {mesh.verts[i].co[c] : i \in 1..Len(mesh.verts)}

\* the corners of obj.bound_box; for an object without geometry the host
\* reports the box from -1 to 1 on every axis
bound_box(mesh) ==
    IF mesh.verts = <<>>
    THEN [min_x |-> <<-1, 1>>, max_x |-> <<1, 1>>,
          min_y |-> <<-1, 1>>, max_y |-> <<1, 1>>,
          min_z |-> <<-1, 1>>, max_z |-> <<1, 1>>]
    ELSE [min_x |-> RMin(Coords(mesh, 1)), max_x |-> RMax(Coords(mesh, 1)),
          min_y |-> RMin(Coords(mesh, 2)), max_y |-> RMax(Coords(mesh, 2)),
          min_z |-> RMin(Coords(mesh, 3)), max_z |-> RMax(Coords(mesh, 3))]

Half == <<1, 2>>
RDiv(a, b) == Rat(a[1] * b[2], a[2] * b[1])
RAbs(a) == <<Abs(a[1]), a[2]>>

\* bpy.ops.mesh.normals_make_consistent: the host reverses the winding of
\* the faces it finds to point inwards (flipped), and keeps the others
normals_make_consistent(mesh, flipped) ==
    [mesh EXCEPT !.faces =
        [i \in 1..Len(mesh.faces) |->
            IF i \in flipped THEN Reverse(mesh.faces[i]) ELSE mesh.faces[i]]]

\* on a connected, coherently wound mesh the host keeps every face or
\* reverses every face
WholeMeshFlips(mesh) == {{}, 1..Len(mesh.faces)}

\* a wrapped vertex: position (r*sin(angle), r*cos(angle), z)
Wrapped(r, angle, z) == [frame |-> "cylindrical", co |-> <<r, angle, z>>]

\* the deformation loop of ring-flow taking every text for a normal one
curve_text_mesh_flow_NeverInverted(mesh, radius, text_direction) ==
    LET bb == bound_box(mesh)
        text_center_x == RMul(RAdd(bb.min_x, bb.max_x), Half)
        text_center_z == RMul(RAdd(bb.min_z, bb.max_z), Half)
    IN  [mesh EXCEPT !.verts =
           [i \in 1..Len(mesh.verts) |->
              Wrapped(RAdd(radius, RSub(mesh.verts[i].co[2], bb.min_y)),
                      RDiv(RSub(mesh.verts[i].co[1], text_center_x), radius),
                      RSub(mesh.verts[i].co[3], text_center_z))]]

\* ring-flow curve_text_mesh, the deformation loop
curve_text_mesh_flow(mesh, radius, text_direction) ==
    LET bb == bound_box(mesh)
        text_center_x == RMul(RAdd(bb.min_x, bb.max_x), Half)
        text_center_z == RMul(RAdd(bb.min_z, bb.max_z), Half)
        y_offset == RNeg(bb.min_y)
    IN  [mesh EXCEPT !.verts =
           [i \in 1..Len(mesh.verts) |->
              LET x == RSub(mesh.verts[i].co[1], text_center_x)
                  y == RAdd(mesh.verts[i].co[2], y_offset)
                  z == RSub(mesh.verts[i].co[3], text_center_z)
                  angle == IF text_direction = "inverted"
                           THEN RNeg(RDiv(x, radius))
                           ELSE RDiv(x, radius)
                  r == RAdd(radius, y)
              IN  Wrapped(r, angle, z)]]

\* abs(x) > available_circumference / 2, with
\* available_circumference = 2 * pi * radius - 2
OutsideAllowedRange(x, radius) ==
    RLt(Pi, RDiv(RAdd(RAbs(x), <<1, 1>>), radius))

\* the wrap deleting the vertices outside the allowed range
curve_text_mesh_emboss_Deleting(mesh, radius, text_direction) ==
    LET bb == bound_box(mesh)
        text_center_x == RMul(RAdd(bb.min_x, bb.max_x), Half)
        kept == SelectSeq(mesh.verts,
                    LAMBDA v : ~OutsideAllowedRange(
                                   RSub(v.co[1], text_center_x), radius))
    IN  [mesh EXCEPT !.verts =
            [i \in 1..Len(kept) |->
                Wrapped(RAdd(radius, RSub(kept[i].co[2], bb.min_y)),
                        RDiv(RSub(kept[i].co[1], text_center_x), radius),
                        kept[i].co[3])]]

\* ring-emboss curve_text_mesh, the deformation loop with its truncation test
curve_text_mesh_emboss(mesh, radius, text_direction) ==
    LET bb == bound_box(mesh)
        text_center_x == RMul(RAdd(bb.min_x, bb.max_x), Half)
        text_center_z == RMul(RAdd(bb.min_z, bb.max_z), Half)
        y_offset == RNeg(bb.min_y)
    IN  [mesh EXCEPT !.verts =
           [i \in 1..Len(mesh.verts) |->
              LET x == RSub(mesh.verts[i].co[1], text_center_x)
                  y == RAdd(mesh.verts[i].co[2], y_offset)
                  z == RSub(mesh.verts[i].co[3], text_center_z)
                  angle == IF text_direction = "inverted"
                           THEN RNeg(RDiv(x, radius))
                           ELSE RDiv(x, radius)
                  r == RAdd(radius, y)
              IN  IF OutsideAllowedRange(x, radius)
                  THEN mesh.verts[i]
                  ELSE Wrapped(r, angle, z)]]

\* ring-blender curve_text_mesh, the deformation loop
curve_text_mesh_blender(mesh, radius, is_embossed) ==
    LET bb == bound_box(mesh)
        text_center_x == RMul(RAdd(bb.min_x, bb.max_x), Half)
        text_center_y == RMul(RAdd(bb.min_y, bb.max_y), Half)
    IN  [mesh EXCEPT !.verts =
           [i \in 1..Len(mesh.verts) |->
              LET x == RSub(mesh.verts[i].co[1], text_center_x)
                  y == RSub(mesh.verts[i].co[2], text_center_y)
                  z == mesh.verts[i].co[3]
                  angle == RDiv(x, radius)
                  r == IF is_embossed
                       THEN RSub(radius, y)
                       ELSE RSub(radius, y)
              IN  Wrapped(r, angle, z)]]

\* ------------------------------------------------------------------ angles
\* An angle in radians is the exact value q + p * pi, q and p rationals.
Angle(q, p) == [q |-> q, p |-> p]
AngNeg(a)      == Angle(RNeg(a.q), RNeg(a.p))
AngAdd(a, b)   == Angle(RAdd(a.q, b.q), RAdd(a.p, b.p))
AngSub(a, b)   == AngAdd(a, AngNeg(b))
AngScale(a, k) == Angle(RMul(a.q, k), RMul(a.p, k))
AngValue(a)    == RAdd(a.q, RMul(a.p, Pi))        \* for comparisons only
AngLeq(a, b)   == RLeq(AngValue(a), AngValue(b))

radians(degrees) == Angle(<<0, 1>>, Rat(degrees, 180))
TwoPi == Angle(<<0, 1>>, <<2, 1>>)

\* Python int(): truncation towards zero
PyInt(a) == IF a[1] >= 0 THEN a[1] \div a[2] ELSE -((-a[1]) \div a[2])

Max(a, b) == IF a >= b THEN a ELSE b

\* --------------------------------------------------- arc of the text (flow)
\* the padding added on one side only
calculate_arc_OneSidedPadding(text_width, outer_radius) ==
    LET text_angle_span  == Angle(RDiv(text_width, outer_radius), <<0, 1>>)
        padding_angle    == radians(2)
        total_angle_span == AngAdd(text_angle_span, padding_angle)
    IN  [text_start_angle |-> AngScale(AngNeg(total_angle_span), Half),
         text_end_angle   |-> AngScale(total_angle_span, Half)]

\* ring-flow create_text_and_calculate_arc, lines 340-356
calculate_arc(text_width, outer_radius) ==
    LET text_angle_span  == Angle(RDiv(text_width, outer_radius), <<0, 1>>)
        padding_angle    == radians(2)
        total_angle_span == AngAdd(text_angle_span,
                                   AngScale(padding_angle, <<2, 1>>))
    IN  [text_start_angle |-> AngScale(AngNeg(total_angle_span), Half),
         text_end_angle   |-> AngScale(total_angle_span, Half)]

text_width_of(mesh) ==
    LET bb == bound_box(mesh) IN RSub(bb.max_x, bb.min_x)

\* ------------------------------------------------- partial ring (ring-flow)
segments_for_arc_of(radial_segments, ring_span) ==
    Max(3, PyInt(RDiv(RMul(Rat(radial_segments, 1), AngValue(ring_span)),
                      RMul(<<2, 1>>, Pi))))

PartialOuterFace(ring_offset, next_ring_offset, r_idx) ==
    <<ring_offset + r_idx, ring_offset + r_idx + 1,
      next_ring_offset + r_idx + 1, next_ring_offset + r_idx>>

PartialInnerFace(ring_offset, next_ring_offset, inner_start, r_idx) ==
    <<ring_offset + inner_start + r_idx, next_ring_offset + inner_start + r_idx,
      next_ring_offset + inner_start + r_idx + 1,
      ring_offset + inner_start + r_idx + 1>>

PartialTopFace(top_offset, segments_for_arc, r_idx) ==
    <<top_offset + r_idx, top_offset + r_idx + 1,
      top_offset + segments_for_arc + 1 + r_idx + 1,
      top_offset + segments_for_arc + 1 + r_idx>>

PartialBottomFace(segments_for_arc, r_idx) ==
    <<r_idx, segments_for_arc + 1 + r_idx,
      segments_for_arc + 1 + r_idx + 1, r_idx + 1>>

StartCapFace(ring_offset, next_ring_offset, segments_for_arc) ==
    <<ring_offset + 0, ring_offset + segments_for_arc + 1,
      next_ring_offset + segments_for_arc + 1, next_ring_offset + 0>>

\* the end cap closing on the last-but-one column of the arc
EndCapFace_OffByOne(ring_offset, next_ring_offset, segments_for_arc) ==
    <<ring_offset + segments_for_arc - 1,
      next_ring_offset + segments_for_arc - 1,
      next_ring_offset + segments_for_arc + 1 + segments_for_arc,
      ring_offset + segments_for_arc + 1 + segments_for_arc>>

EndCapFace(ring_offset, next_ring_offset, segments_for_arc) ==
    <<ring_offset + segments_for_arc, next_ring_offset + segments_for_arc,
      next_ring_offset + segments_for_arc + 1 + segments_for_arc,
      ring_offset + segments_for_arc + 1 + segments_for_arc>>

create_partial_ring(cfg, start_angle, end_angle) ==
    LET V == cfg.ring.vertical_segments
        length == cfg.ring.length
        ring_start == end_angle
        ring_end   == AngAdd(start_angle, TwoPi)
        ring_span  == AngSub(ring_end, ring_start)
        segments_for_arc ==
            segments_for_arc_of(cfg.ring.radial_segments, ring_span)
        S == segments_for_arc
        verts_per_ring == (S + 1) * 2
        vert(diameter, r_idx, v_idx) ==
            [radius |-> Rat(diameter, 2),
             angle  |-> AngAdd(ring_start, AngScale(ring_span, Rat(r_idx, S))),
             z      |-> RAdd(Rat(-length, 2), Rat(length * v_idx, V))]
        side == [k \in 1..(V * 2 * S) |->
                    LET v_idx == (k - 1) \div (2 * S)
                        j     == (k - 1) % (2 * S)
                        ring_offset      == v_idx * verts_per_ring
                        next_ring_offset == (v_idx + 1) * verts_per_ring
                    IN  IF j < S
                        THEN PartialOuterFace(ring_offset, next_ring_offset, j)
                        ELSE PartialInnerFace(ring_offset, next_ring_offset,
                                              S + 1, j - S)]
        top    == [k \in 1..S |-> PartialTopFace(V * verts_per_ring, S, k - 1)]
        bottom == [k \in 1..S |-> PartialBottomFace(S, k - 1)]
        start_cap == [k \in 1..V |->
                        StartCapFace((k - 1) * verts_per_ring,
                                     k * verts_per_ring, S)]
        end_cap   == [k \in 1..V |->
                        EndCapFace((k - 1) * verts_per_ring,
                                   k * verts_per_ring, S)]
    IN  [verts |-> [k \in 1..((V + 1) * verts_per_ring) |->
                      LET v_idx == (k - 1) \div verts_per_ring
                          j     == (k - 1) % verts_per_ring
                      IN  IF j < S + 1
                          THEN vert(cfg.ring.outer_diameter, j, v_idx)
                          ELSE vert(cfg.ring.inner_diameter, j - (S + 1),
                                    v_idx)],
         faces |-> side \o top \o bottom \o start_cap \o end_cap,
         name  |-> "PartialRing",
         segments_for_arc |-> S,
         ring_span |-> ring_span]

\* ------------------------------------------------------ text specification
TextRingDims ==
    {[inner_diameter |-> 2,  outer_diameter |-> 4,  length |-> 6],
     [inner_diameter |-> 16, outer_diameter |-> 20, length |-> 6]}

EmbossTextConfigs ==
    {[variant |-> "emboss",
      ring    |-> [inner_diameter |-> d.inner_diameter,
                   outer_diameter |-> d.outer_diameter,
                   length |-> d.length,
                   radial_segments |-> 3, vertical_segments |-> 1],
      text    |-> [depth |-> 1, direction |-> dir]] :
        d \in TextRingDims, dir \in {"normal", "inverted"}}

FlowTextConfigs ==
    {[variant |-> "flow",
      ring    |-> [inner_diameter |-> d.inner_diameter,
                   outer_diameter |-> d.outer_diameter,
                   length |-> d.length,
                   radial_segments |-> R, vertical_segments |-> V],
      text    |-> [depth |-> 1, direction |-> dir]] :
        d \in TextRingDims, dir \in {"normal", "inverted"},
        R \in 3..MaxRadial, V \in 1..MaxVertical}

BlenderTextConfigs ==
    {[variant |-> "blender",
      ringInnerDiameter |-> d.inner_diameter,
      ringOuterDiameter |-> d.outer_diameter,
      ringLength |-> d.length,
      textDepth |-> 1,
      isEmbossed |-> e, isCarved |-> ~e] :
        d \in TextRingDims, e \in BOOLEAN}

TextDepthOf(cfg) ==
    IF cfg.variant = "blender" THEN cfg.textDepth ELSE cfg.text.depth

InitText ==
    /\ pc = "config"
    /\ config \in EmbossTextConfigs \cup FlowTextConfigs \cup BlenderTextConfigs
    /\ font_mesh \in FontMeshes
    /\ scan = <<>>
    /\ exit_code = <<>>
    /\ output = NoOutput
    /\ scene = {}
    /\ ring_obj = None
    /\ text_obj = None
    /\ arc = <<>>
    /\ merge_in = <<>>
    /\ combined = None
    /\ log_messages = <<>>

\* ring-emboss create_text: font load, conversion, curve_text_mesh; `at` is
\* the position it is called from
CreateTextAt(at) ==
    /\ pc = at
    /\ config.variant = "emboss"
    /\ \E font_loaded \in BOOLEAN, flip \in WholeMeshFlips(font_mesh) :
        LET radius == Rat(config.ring.outer_diameter, 2)
            text_width == text_width_of(font_mesh)
            too_wide ==        \* text_width > available_circumference
                RLt(Pi, RDiv(RAdd(text_width, <<2, 1>>),
                             RMul(<<2, 1>>, radius)))
        IN  IF ~font_loaded
            THEN /\ log_messages' = log_messages \o
                       <<Log("INFO", "Creating text object"),
                         Log("ERROR", "Failed to load font")>>
                 /\ pc' = "failed"
                 /\ UNCHANGED <<text_obj, scene>>
            ELSE /\ text_obj' = [normals_make_consistent(
                       curve_text_mesh_emboss(font_mesh, radius,
                                              config.text.direction), flip)
                                    EXCEPT !.name = NewName(scene, @)]
                 /\ scene' = Link(scene, "Text")
                 /\ log_messages' = log_messages \o
                       <<Log("INFO", "Creating text object"),
                         Log("INFO", "Loaded font"),
                         Log("INFO", "Converting text to mesh")>> \o
                       (IF too_wide
                        THEN <<Log("WARNING", "text will be truncated")>>
                        ELSE <<>>) \o
                       <<Log("INFO", "Curving text around ring"),
                         Log("INFO", "Text depth range"),
                         Log("INFO", "Created embossed text")>>
                 /\ pc' = "text"
    /\ UNCHANGED <<config, ring_obj, arc, merge_in, combined, font_mesh>>
    /\ UNCHANGED <<scan, exit_code, output>>

CreateText == CreateTextAt("config")

\* ring-blender create_text: a failed font load falls back to the default
\* font, whose rendering is some other mesh
CreateTextBlenderAt(at) ==
    /\ pc = at
    /\ config.variant = "blender"
    /\ \E font_loaded \in BOOLEAN, fallback \in FontMeshes :
       \E flip \in WholeMeshFlips(IF font_loaded THEN font_mesh ELSE fallback) :
        LET radius == Rat(config.ringOuterDiameter, 2)
            mesh == IF font_loaded THEN font_mesh ELSE fallback
            too_wide ==        \* text_width > circumference
                RLt(Pi, RDiv(text_width_of(mesh), RMul(<<2, 1>>, radius)))
        IN  /\ font_loaded => fallback = font_mesh
            /\ font_mesh' = mesh
            /\ text_obj' = [normals_make_consistent(
                   curve_text_mesh_blender(mesh, radius, config.isEmbossed),
                   flip) EXCEPT !.name = NewName(scene, @)]
            /\ scene' = Link(scene, "Text")
            /\ log_messages' = log_messages \o
                   (IF font_loaded
                    THEN <<Log("INFO", "Loaded font")>>
                    ELSE <<Log("ERROR", "Failed to load font"),
                           Log("WARNING", "Using default Blender font")>>) \o
                   (IF too_wide
                    THEN <<Log("WARNING", "exceeds circumference, will wrap")>>
                    ELSE <<>>) \o
                   <<Log("INFO", "Created text")>>
            /\ pc' = "text"
    /\ UNCHANGED <<config, ring_obj, arc, merge_in, combined>>
    /\ UNCHANGED <<scan, exit_code, output>>

CreateTextBlender == CreateTextBlenderAt("config")

\* ring-flow create_text_and_calculate_arc
CreateTextAndCalculateArc ==
    /\ pc = "config"
    /\ config.variant = "flow"
    /\ \E font_loaded \in BOOLEAN, flip \in WholeMeshFlips(font_mesh) :
        LET outer_radius == Rat(config.ring.outer_diameter, 2)
        IN  IF ~font_loaded
            THEN /\ log_messages' = log_messages \o
                       <<Log("INFO", "Creating text object"),
                         Log("ERROR", "Failed to load font")>>
                 /\ pc' = "failed"
                 /\ UNCHANGED <<text_obj, arc, scene>>
            ELSE /\ arc' = calculate_arc(text_width_of(font_mesh),
                                         outer_radius)
                 /\ text_obj' = [normals_make_consistent(
                       curve_text_mesh_flow(font_mesh, outer_radius,
                                            config.text.direction), flip)
                                    EXCEPT !.name = NewName(scene, @)]
                 /\ scene' = Link(scene, "Text")
                 /\ log_messages' = log_messages \o
                       <<Log("INFO", "Creating text object"),
                         Log("INFO", "Loaded font"),
                         Log("INFO", "Converting text to mesh"),
                         Log("INFO", "Text arc"),
                         Log("INFO", "Text angular span"),
                         Log("INFO", "Curving text around ring"),
                         Log("INFO", "Text depth range"),
                         Log("INFO", "Created embossed text")>>
                 /\ pc' = "text"
    /\ UNCHANGED <<config, ring_obj, merge_in, combined, font_mesh>>
    /\ UNCHANGED <<scan, exit_code, output>>

\* the partial ring built at the start of run(), before the text
CreatePartialRing_BeforeText ==
    /\ pc = "config"
    /\ config.variant = "flow"
    /\ ring_obj = None
    /\ LET a == calculate_arc(text_width_of(font_mesh),
                              Rat(config.ring.outer_diameter, 2))
       IN  ring_obj' = create_partial_ring(config, a.text_start_angle,
                                           a.text_end_angle)
    /\ scene' = Link(scene, "PartialRing")
    /\ log_messages' = log_messages \o
           <<Log("INFO", "Creating partial ring"),
             Log("INFO", "Created partial ring")>>
    /\ UNCHANGED <<pc, config, text_obj, arc, merge_in, combined, font_mesh>>
    /\ UNCHANGED <<scan, exit_code, output>>

\* ring-flow create_partial_ring(self.text_start_angle, self.text_end_angle)
CreatePartialRing ==
    /\ pc = "text"
    /\ config.variant = "flow"
    /\ ring_obj' = [create_partial_ring(config, arc.text_start_angle,
                                        arc.text_end_angle)
                        EXCEPT !.name = NewName(scene, @)]
    /\ scene' = Link(scene, "PartialRing")
    /\ log_messages' = log_messages \o
           <<Log("INFO", "Creating partial ring"),
             Log("INFO", "Ring arc span"),
             Log("INFO", "Using radial segments for the arc"),
             Log("INFO", "Created partial ring")>>
    /\ pc' = "ring"
    /\ UNCHANGED <<config, text_obj, arc, merge_in, combined, font_mesh>>
    /\ UNCHANGED <<scan, exit_code, output>>

NextText ==
    \/ CreateText
    \/ CreateTextBlender
    \/ CreateTextAndCalculateArc
    \/ CreatePartialRing

SpecText == InitText /\ [][NextText]_vars

\* C2: the partial ring of create_partial_ring has no boundary edge: every
\* undirected edge of its outer, inner, top, bottom, start-cap and end-cap
\* faces belongs to exactly 2 faces.
PartialRingWatertight ==
    (pc = "ring" /\ config.variant = "flow") => Watertight(ring_obj)

PartialRingBuilt ==
    /\ pc = "ring"
    /\ config.variant = "flow"
    /\ ring_obj.segments_for_arc > 3
    /\ config.ring.vertical_segments > 1
    /\ Len(ring_obj.faces) =
          2 * ring_obj.segments_for_arc * (config.ring.vertical_segments + 1)
          + 2 * config.ring.vertical_segments

\* C4: in the partial ring every edge shared by two faces is traversed in
\* opposite directions by the two faces, the edges where an end cap meets
\* the outer, inner, top and bottom faces included.
PartialRingCoherent ==
    (pc = "ring" /\ config.variant = "flow") => CoherentWinding(ring_obj)

\* C7 (as stated): after curve_text_mesh the vertex count, the face count and
\* every face's ordered vertex-index list are those of the mesh before it.
WrappedText == pc \in {"text", "ring"}

WrapKeepsFaceLists ==
    WrappedText =>
        /\ Len(text_obj.verts) = Len(font_mesh.verts)
        /\ text_obj.faces = font_mesh.faces

\* g lists the vertices of f in the same cyclic order, forwards or backwards
Rotations(f) ==
    {[i \in 1..Len(f) |-> f[((i + k - 1) % Len(f)) + 1]] : k \in 0..(Len(f) - 1)}
SameCycle(f, g) == g \in Rotations(f) \cup Rotations(Reverse(f))

\* C7 (amended): after curve_text_mesh the vertex count and the face count
\* are unchanged and every face lists the same vertices in the same cyclic
\* order up to reversal (the trailing normals recalculation may reverse it).
WrapKeepsTopology ==
    WrappedText =>
        /\ Len(text_obj.verts) = Len(font_mesh.verts)
        /\ Len(text_obj.faces) = Len(font_mesh.faces)
        /\ \A i \in 1..Len(font_mesh.faces) :
              SameCycle(font_mesh.faces[i], text_obj.faces[i])

\* a vertex of the rendered text lies outside the range the truncation test
\* of ring-emboss allows
Overlong(mesh, radius) ==
    LET bb == bound_box(mesh)
        text_center_x == RMul(RAdd(bb.min_x, bb.max_x), Half)
    IN  {i \in 1..Len(mesh.verts) :
            OutsideAllowedRange(RSub(mesh.verts[i].co[1], text_center_x),
                                radius)}

WrapSkippedAndReversed ==
    /\ pc = "text"
    /\ config.variant = "emboss"
    /\ Overlong(font_mesh, Rat(config.ring.outer_diameter, 2)) # {}
    /\ text_obj.faces # font_mesh.faces

\* C8: in truncation mode no vertex beyond half the available circumference
\* remains in the output at its flat position, and no face references one.
TruncatedVerticesDropped ==
    (pc = "text" /\ config.variant = "emboss") =>
        /\ \A i \in 1..Len(text_obj.verts) : text_obj.verts[i].frame # "flat"
        /\ Len(text_obj.verts) = Len(font_mesh.verts)
              - Cardinality(Overlong(font_mesh,
                                     Rat(config.ring.outer_diameter, 2)))

\* C9: embossed and carved text of the same flat input are placed at
\* different radial distances.
EmbossedCarvedRadiiDiffer ==
    (pc = "text" /\ config.variant = "blender") =>
        LET other == curve_text_mesh_blender(
                         font_mesh, Rat(config.ringOuterDiameter, 2),
                         ~config.isEmbossed)
        IN  \E i \in 1..Len(text_obj.verts) :
                text_obj.verts[i].co[1] # other.verts[i].co[1]

\* C10: the arc is symmetric about 0, spans width/radius + 2*padding_angle,
\* does not shrink when the text gets wider, and is exactly 2*padding_angle
\* for a text of width 0.
ArcAllocated == pc \in {"text", "ring"} /\ config.variant = "flow"

SpanOf(a) == AngSub(a.text_end_angle, a.text_start_angle)

ArcSymmetricSpan ==
    ArcAllocated =>
        LET width  == text_width_of(font_mesh)
            radius == Rat(config.ring.outer_diameter, 2)
        IN  /\ arc.text_start_angle = AngNeg(arc.text_end_angle)
            /\ SpanOf(arc) = Angle(RDiv(width, radius), Rat(4, 180))
            /\ \A m \in FontMeshes :
                  /\ RLeq(text_width_of(m), width) =>
                        AngLeq(SpanOf(calculate_arc(text_width_of(m), radius)),
                               SpanOf(arc))
                  /\ RLeq(width, text_width_of(m)) =>
                        AngLeq(SpanOf(arc),
                               SpanOf(calculate_arc(text_width_of(m), radius)))
            /\ width = <<0, 1>> => SpanOf(arc) = AngScale(radians(2), <<2, 1>>)

ArcOfWideText ==
    /\ ArcAllocated
    /\ text_width_of(font_mesh) = <<14, 1>>
    /\ arc.text_end_angle.q # <<0, 1>>

\* C11: the angular span create_partial_ring uses for the ring body, from
\* end_angle round to start_angle + 2*pi, is at least 0 and less than 2*pi
\* for every text width and ring radius, a text whose padded span reaches or
\* exceeds the full circle included.
RingSpanInRange ==
    (pc = "ring" /\ config.variant = "flow") =>
        /\ AngLeq(Angle(<<0, 1>>, <<0, 1>>), ring_obj.ring_span)
        /\ ~AngLeq(TwoPi, ring_obj.ring_span)

\* Python round(): to the nearest integer, a tie to the even one
PyRound(a) ==
    LET f == a[1] \div a[2]
        twice_rest == 2 * (a[1] - f * a[2])
    IN  IF twice_rest < a[2] THEN f
        ELSE IF twice_rest > a[2] THEN f + 1
        ELSE IF f % 2 = 0 THEN f ELSE f + 1

\* the vertices of the ring on the circle of one diameter at one axial level
CircleVertices(mesh, diameter, v_idx) ==
    {k \in 1..Len(mesh.verts) :
        /\ mesh.verts[k].radius = Rat(diameter, 2)
        /\ mesh.verts[k].z = RAdd(Rat(-config.ring.length, 2),
                                  Rat(config.ring.length * v_idx,
                                      config.ring.vertical_segments))}

\* C12: for an arc of span s the partial ring has exactly
\* max(3, round(radial_segments * s / (2*pi))) vertices on the outer circle
\* and as many on the inner circle, at every axial level.
PartialRingVertexCount ==
    (pc = "ring" /\ config.variant = "flow") =>
        LET expected ==
                Max(3, PyRound(RDiv(RMul(Rat(config.ring.radial_segments, 1),
                                         AngValue(ring_obj.ring_span)),
                                    RMul(<<2, 1>>, Pi))))
        IN  \A v_idx \in 0..config.ring.vertical_segments :
               /\ Cardinality(CircleVertices(ring_obj,
                      config.ring.outer_diameter, v_idx)) = expected
               /\ Cardinality(CircleVertices(ring_obj,
                      config.ring.inner_diameter, v_idx)) = expected

\* ------------------------------------------------------------ mesh merging
MaxWedges == 2        \* most wedge objects handed to the merge

\* Meshes to merge have vertices on a lattice of 0.00004 mm: co = <<x, y, z>>
\* in lattice units, so the weld threshold 0.0001 mm is 2.5 units.
Point(x, y, z) == [frame |-> "cartesian", co |-> <<x, y, z>>]

EmptyMesh == [verts |-> <<>>, faces |-> <<>>, name |-> "Empty"]

TriAt(k) ==
    [verts |-> <<Point(k, 0, 0), Point(k + 4, 0, 0), Point(k, 4, 0)>>,
     faces |-> <<<<0, 1, 2>>>>, name |-> "Tri"]

StripAt(k) ==
    [verts |-> <<Point(k, 0, 0), Point(k + 4, 0, 0), Point(k + 4, 4, 0),
                 Point(k, 4, 0)>>,
     faces |-> <<<<0, 1, 2>>, <<0, 2, 3>>>>, name |-> "Strip"]

\* a mesh two of whose own vertices (0 and 3) are 1 unit apart
SeamAt(k) ==
    [verts |-> <<Point(k, 0, 0), Point(k + 4, 0, 0), Point(k, 4, 0),
                 Point(k + 1, 0, 0)>>,
     faces |-> <<<<0, 1, 2>>, <<3, 2, 1>>>>, name |-> "Seam"]

MergeOffsets == {0, 1, 9}

MergeMeshes ==
    {EmptyMesh} \cup {TriAt(k) : k \in MergeOffsets}
                \cup {StripAt(k) : k \in MergeOffsets}
                \cup {SeamAt(k) : k \in MergeOffsets}

WedgeMeshes == {TriAt(2), TriAt(18)}

WedgeLists == UNION {[1..n -> WedgeMeshes] : n \in 0..MaxWedges}

\* an angle brought into [0, 2*pi)
RECURSIVE Turned(_)
Turned(a) ==
    IF RLt(AngValue(a), <<0, 1>>) THEN Turned(AngAdd(a, TwoPi))
    ELSE IF RLeq(AngValue(TwoPi), AngValue(a)) THEN Turned(AngSub(a, TwoPi))
    ELSE a

\* Where a vertex of generated geometry lies (v.co.x, v.co.y, v.co.z), as
\* radius, angle from the +Y axis towards +X, and z: the wrapped text and
\* the partial ring put x = r*sin(angle), y = r*cos(angle); the full ring
\* puts x = r*cos(2*pi*turn), y = r*sin(2*pi*turn).
Position(v) ==
    IF "frame" \in DOMAIN v
    THEN IF v.frame = "cylindrical"
         THEN <<"cyl", v.co[1], Turned(Angle(v.co[2], <<0, 1>>)), v.co[3]>>
         ELSE IF v.frame = "polar"
         THEN <<"cyl", v.co[1], Turned(v.co[2]), v.co[3]>>
         ELSE IF v.frame = "located"
         THEN v.at
         ELSE <<v.frame, v.co>>
    ELSE IF "turn" \in DOMAIN v
    THEN <<"cyl", v.radius,
           Turned(Angle(<<0, 1>>, RSub(Half, RMul(<<2, 1>>, v.turn)))), v.z>>
    ELSE <<"cyl", v.radius, Turned(v.angle), v.z>>

Cartesian(v) == "frame" \in DOMAIN v /\ v.frame = "cartesian"

\* a vertex of generated geometry with its position worked out
Locate(v) ==
    IF Cartesian(v) THEN v ELSE [frame |-> "located", at |-> Position(v)]

\* a weld threshold of 0.001 mm (25 units)
WithinThreshold_TenTimes(a, b) ==
    LET dx == a.co[1] - b.co[1]
        dy == a.co[2] - b.co[2]
        dz == a.co[3] - b.co[3]
    IN  dx * dx + dy * dy + dz * dz < 625

\* remove_doubles(threshold=0.0001): Euclidean distance below 2.5 units on
\* the lattice; generated geometry is drawn so that two of its vertices lie
\* at the same place or more than the threshold apart
WithinThreshold(a, b) ==
    IF Cartesian(a) /\ Cartesian(b)
    THEN LET dx == a.co[1] - b.co[1]
             dy == a.co[2] - b.co[2]
             dz == a.co[3] - b.co[3]
         IN  4 * (dx * dx + dy * dy + dz * dz) < 25
    ELSE Position(a) = Position(b)

\* for every vertex, the (1-based) vertex it is welded into: the first
\* surviving vertex within the threshold, or itself
RECURSIVE WeldTargets(_, _)
WeldTargets(verts, n) ==
    IF n = 0 THEN <<>>
    ELSE LET prev  == WeldTargets(verts, n - 1)
             cands == {j \in 1..(n - 1) :
                          prev[j] = j /\ WithinThreshold(verts[j], verts[n])}
         IN  Append(prev, IF cands = {} THEN n
                          ELSE CHOOSE j \in cands : \A k \in cands : j <= k)

\* the same for generated geometry, whose vertices weld only when they lie
\* at the same place: the first vertex at the place of each vertex
FirstAtPlace(located) ==
    [i \in 1..Len(located) |->
        CHOOSE j \in 1..i : /\ located[j] = located[i]
                            /\ \A k \in 1..(j - 1) : located[k] # located[i]]

\* drop the vertices of a face that repeat their predecessor (cyclically)
Collapse(f) ==
    SelectSeq([i \in 1..Len(f) |->
                  <<f[i], f[IF i = 1 THEN Len(f) ELSE i - 1]>>],
              LAMBDA pr : pr[1] # pr[2])

Located(verts) ==
    SelectSeq([i \in 1..Len(verts) |-> Locate(verts[i])], LAMBDA v : TRUE)

\* for every vertex, the vertex it is welded into
Targets(located) ==
    IF \E i \in 1..Len(located) : Cartesian(located[i])
    THEN WeldTargets(located, Len(located))
    ELSE FirstAtPlace(located)

\* the surviving vertices
Kept(target) == {i \in 1..Len(target) : target[i] = i}

\* the 0-based index each vertex has once the welded ones are removed
NewIndex(target, kept) ==
    [i \in 1..Len(target) |-> Cardinality({j \in kept : j < target[i]})]

WeldFace(f, new_index) ==
    LET c == Collapse([k \in 1..Len(f) |-> new_index[f[k] + 1]])
    IN  [k \in 1..Len(c) |-> c[k][1]]

\* the mesh with the welded vertices removed, the faces re-indexed and the
\* faces left with fewer than 3 distinct vertices dissolved
WeldedMesh(mesh, kept, new_index) ==
    [mesh EXCEPT
        !.verts = SelectSeq([i \in 1..Len(mesh.verts) |-> <<i, mesh.verts[i]>>],
                            LAMBDA pr : pr[1] \in kept),
        !.faces = SelectSeq([i \in 1..Len(mesh.faces) |->
                                WeldFace(mesh.faces[i], new_index)],
                            LAMBDA f : Cardinality(Range(f)) >= 3)]

WeldInto(mesh, target, kept) ==
    WeldedMesh(mesh, kept, NewIndex(target, kept))

WeldBy(mesh, target) == WeldInto(mesh, target, Kept(target))

remove_doubles(mesh) == WeldBy(mesh, Targets(Located(mesh.verts)))

StripIndex(verts) == [i \in 1..Len(verts) |-> verts[i][2]]

OffsetFaces(faces, vertex_offset) ==
    [i \in 1..Len(faces) |->
        [k \in 1..Len(faces[i]) |-> faces[i][k] + vertex_offset]]

\* lines 729-739: the loop over wedge_objs
RECURSIVE add_wedges(_, _, _, _)
add_wedges(all_verts, all_faces, vertex_offset, wedge_objs) ==
    IF wedge_objs = <<>> THEN [all_verts |-> all_verts, all_faces |-> all_faces]
    ELSE LET wedge_mesh == Head(wedge_objs)
         IN  add_wedges(all_verts \o wedge_mesh.verts,
                        all_faces \o OffsetFaces(wedge_mesh.faces,
                                                 vertex_offset),
                        vertex_offset + Len(wedge_mesh.verts),
                        Tail(wedge_objs))

\* lines 704-739: all_verts / all_faces handed to from_pydata
concatenate_with_wedges(ring_mesh, text_mesh, wedge_objs) ==
    LET ring_verts == ring_mesh.verts
        text_verts == text_mesh.verts
    IN  add_wedges(ring_verts \o text_verts,
                   ring_mesh.faces \o OffsetFaces(text_mesh.faces,
                                                  Len(ring_verts)),
                   Len(ring_verts) + Len(text_verts),
                   wedge_objs)

\* text faces appended without the ring's vertex count added
concatenate_NoOffset(ring_mesh, text_mesh) ==
    [all_verts |-> ring_mesh.verts \o text_mesh.verts,
     all_faces |-> ring_mesh.faces \o text_mesh.faces]

\* combine_ring_and_text: all_verts / all_faces
concatenate(ring_mesh, text_mesh) ==
    LET ring_verts   == ring_mesh.verts
        text_verts   == text_mesh.verts
        vertex_offset == Len(ring_verts)
    IN  [all_verts |-> ring_verts \o text_verts,
         all_faces |-> ring_mesh.faces \o
                       OffsetFaces(text_mesh.faces, vertex_offset)]

\* the faces normals_make_consistent may reverse on the merged mesh: any set
\* of faces of a mesh of up to 6 faces, none or all faces of a larger one
MergedFlips(face_count) ==
    IF face_count <= 6 THEN SUBSET (1..face_count)
    ELSE {{}, 1..face_count}

\* from_pydata, remove_doubles and normals_make_consistent on "FinalRing"
FinalRing(cat, welded, flipped) ==
    [verts     |-> StripIndex(welded.verts),
     faces     |-> normals_make_consistent(welded, flipped).faces,
     name      |-> "FinalRing",
     all_verts |-> cat.all_verts,
     all_faces |-> cat.all_faces]

\* bm.to_mesh / from_pydata of the concatenated lists, then remove_doubles
Welded(cat) ==
    remove_doubles([verts |-> cat.all_verts, faces |-> cat.all_faces,
                    name |-> "FinalRing"])

\* the objects combine_* removes once merged: ring_obj, text_obj and the
\* wedge objects of this request
Originals(ring, text, wedges) ==
    {Object(ring.name, "self"), Object(text.name, "self")}
    \cup {Object(wedges[i].name, "self") : i \in 1..Len(wedges)}

InitMerge ==
    /\ pc = "parts"
    /\ config = [variant |-> "flow"]
    /\ ring_obj \in MergeMeshes
    /\ text_obj \in MergeMeshes
    /\ \E wedge_objs \in WedgeLists :
          merge_in = [ring_obj |-> ring_obj, text_obj |-> text_obj,
                      wedge_objs |-> wedge_objs]
    /\ arc = <<>>
    /\ combined = None
    /\ log_messages = <<>>
    /\ font_mesh = None
    /\ scan = <<>>
    /\ exit_code = <<>>
    /\ output = NoOutput
    /\ scene = Originals(ring_obj, text_obj, merge_in.wedge_objs)

\* combine_ring_and_text(ring_obj, text_obj), used when there are no wedges
\* (ring-flow) and always in ring-emboss
CombineRingAndText ==
    /\ \/ pc = "parts" /\ merge_in.wedge_objs = <<>>
       \/ pc = "text" /\ config.variant = "emboss"
    /\ IF Alive(scene, ring_obj) /\ Alive(scene, text_obj)
       THEN /\ \E cat \in {concatenate(ring_obj, text_obj)} :
                 \E welded \in {Welded(cat)} :
                 \E flipped \in MergedFlips(Len(welded.faces)) :
                     combined' = [FinalRing(cat, welded, flipped) EXCEPT
                                    !.name = NewName(scene, @)]
            /\ scene' = Link(scene, "FinalRing")
                           \ Originals(ring_obj, text_obj, <<>>)
            /\ ring_obj' = None
            /\ text_obj' = None
            /\ log_messages' = log_messages \o
                   <<Log("INFO", "Merging ring and text meshes"),
                     Log("INFO", "Successfully merged meshes")>>
            /\ pc' = "merged"
       ELSE \* ring_obj.data / text_obj.data of a removed object raises
            /\ log_messages' = log_messages \o
                   <<Log("INFO", "Merging ring and text meshes"),
                     Log("ERROR", "Failed to merge meshes"),
                     Log("ERROR", "Traceback")>>
            /\ pc' = "combine_failed"
            /\ UNCHANGED <<combined, scene, ring_obj, text_obj>>
    /\ UNCHANGED <<config, arc, merge_in, font_mesh>>
    /\ UNCHANGED <<scan, exit_code, output>>

\* combine_ring_and_text_with_wedges(ring_obj, text_obj, wedge_objs)
CombineRingAndTextWithWedges ==
    /\ pc = "parts"
    /\ merge_in.wedge_objs # <<>>
    /\ IF /\ Alive(scene, ring_obj) /\ Alive(scene, text_obj)
          /\ \A i \in 1..Len(merge_in.wedge_objs) :
                Alive(scene, merge_in.wedge_objs[i])
       THEN /\ \E cat \in {concatenate_with_wedges(ring_obj, text_obj,
                                                    merge_in.wedge_objs)} :
                 \E welded \in {Welded(cat)} :
                 \E flipped \in MergedFlips(Len(welded.faces)) :
                     combined' = [FinalRing(cat, welded, flipped) EXCEPT
                                    !.name = NewName(scene, @)]
            /\ scene' = Link(scene, "FinalRing")
                           \ Originals(ring_obj, text_obj,
                                       merge_in.wedge_objs)
            /\ ring_obj' = None
            /\ text_obj' = None
            /\ log_messages' = log_messages \o
                   <<Log("INFO", "Merging ring, text, and wedge meshes"),
                     Log("INFO", "Successfully merged meshes")>>
            /\ pc' = "merged"
       ELSE /\ log_messages' = log_messages \o
                   <<Log("INFO", "Merging ring, text, and wedge meshes"),
                     Log("ERROR", "Failed to merge meshes"),
                     Log("ERROR", "Traceback")>>
            /\ pc' = "combine_failed"
            /\ UNCHANGED <<combined, scene, ring_obj, text_obj>>
    /\ UNCHANGED <<config, arc, merge_in, font_mesh>>
    /\ UNCHANGED <<scan, exit_code, output>>

NextMerge == CombineRingAndText \/ CombineRingAndTextWithWedges

SpecMerge == InitMerge /\ [][NextMerge]_vars

\* the sub-meshes in merge order: ring, text, then each wedge
Parts == <<merge_in.ring_obj, merge_in.text_obj>> \o merge_in.wedge_objs

RECURSIVE VertsBefore(_)
VertsBefore(k) ==
    IF k = 1 THEN 0 ELSE VertsBefore(k - 1) + Len(Parts[k - 1].verts)

RECURSIVE FacesBefore(_)
FacesBefore(k) ==
    IF k = 1 THEN 0 ELSE FacesBefore(k - 1) + Len(Parts[k - 1].faces)

\* C5: every face of the combined face list that came from sub-mesh k has
\* each index equal to its original index plus the vertex counts of the
\* sub-meshes before k, so it is in range and stays in its own block.
MergedIndicesOffset ==
    pc = "merged" =>
        /\ Len(combined.all_faces) = FacesBefore(Len(Parts) + 1)
        /\ Len(combined.all_verts) = VertsBefore(Len(Parts) + 1)
        /\ \A k \in 1..Len(Parts) :
              \A i \in 1..Len(Parts[k].faces) :
                 LET f == Parts[k].faces[i]
                     g == combined.all_faces[FacesBefore(k) + i]
                 IN  /\ Len(g) = Len(f)
                     /\ \A n \in 1..Len(f) :
                           /\ g[n] = f[n] + VertsBefore(k)
                           /\ g[n] >= VertsBefore(k)
                           /\ g[n] < VertsBefore(k) + Len(Parts[k].verts)
                           /\ g[n] < Len(combined.all_verts)

MergedWithTwoWedges ==
    /\ pc = "merged"
    /\ Len(merge_in.wedge_objs) = 2
    /\ merge_in.ring_obj.faces # <<>>
    /\ merge_in.text_obj.faces # <<>>
    /\ Len(combined.all_faces) >= 4

\* two vertices further apart than the weld threshold (2.5 lattice units)
Apart(a, b) ==
    (a.co[1] - b.co[1]) * (a.co[1] - b.co[1])
    + (a.co[2] - b.co[2]) * (a.co[2] - b.co[2])
    + (a.co[3] - b.co[3]) * (a.co[3] - b.co[3]) >= 7

NoSharedVertex(m1, m2) ==
    \A i \in 1..Len(m1.verts), j \in 1..Len(m2.verts) :
        Apart(m1.verts[i], m2.verts[j])

\* C6 (as stated): merging a mesh with an empty mesh keeps its vertex and
\* face counts, and merging two meshes with no coincident vertices between
\* them yields the sums of their vertex and face counts.
MergeCountsAsStated ==
    (pc = "merged" /\ merge_in.wedge_objs = <<>>) =>
        LET ring == merge_in.ring_obj
            text == merge_in.text_obj
        IN  /\ text = EmptyMesh =>
                  /\ Len(combined.verts) = Len(ring.verts)
                  /\ Len(combined.faces) = Len(ring.faces)
            /\ NoSharedVertex(ring, text) =>
                  /\ Len(combined.verts) = Len(ring.verts) + Len(text.verts)
                  /\ Len(combined.faces) = Len(ring.faces) + Len(text.faces)

\* no two vertices of the merged inputs, of one mesh or of two, lie within
\* the weld threshold of each other
AllVerticesApart ==
    \A i, j \in 1..Len(combined.all_verts) :
        i # j => Apart(combined.all_verts[i], combined.all_verts[j])

\* C6 (amended): provided no two vertices of the inputs lie within the weld
\* threshold of each other, the merged mesh has the sum of the inputs'
\* vertex counts and the sum of their face counts (an empty input adds 0).
MergeCountsWhenApart ==
    (pc = "merged" /\ AllVerticesApart) =>
        /\ Len(combined.verts) = VertsBefore(Len(Parts) + 1)
        /\ Len(combined.faces) = FacesBefore(Len(Parts) + 1)

MergedDisjointPair ==
    /\ pc = "merged"
    /\ AllVerticesApart
    /\ merge_in.ring_obj = StripAt(0)
    /\ merge_in.text_obj = TriAt(9)
    /\ merge_in.wedge_objs = <<>>
    /\ Len(combined.verts) = 7


\* ------------------------------------------------- boundary stitching (flow)
\* a Python float that is a finite angle or +-infinity (inf = 1, -1 or 0)
Float(inf, value) == [inf |-> inf, value |-> value]
Zero == Angle(<<0, 1>>, <<0, 1>>)

\* math.atan2(x, y) of a vertex at (r*sin(a), r*cos(a)), r > 0: the angle a
\* brought into (-pi, pi]
RECURSIVE atan2(_)
atan2(a) ==
    IF RLt(Pi, AngValue(a)) THEN atan2(AngSub(a, TwoPi))
    ELSE IF RLeq(AngValue(a), RNeg(Pi)) THEN atan2(AngAdd(a, TwoPi))
    ELSE a

\* angle < other, angle > other and abs(angle - other) < 0.001 on floats
FloatLt(angle, other) ==
    \/ other.inf = 1
    \/ other.inf = 0 /\ RLt(AngValue(angle), AngValue(other.value))
FloatGt(angle, other) ==
    \/ other.inf = -1
    \/ other.inf = 0 /\ RLt(AngValue(other.value), AngValue(angle))
WithinTolerance(angle, other) ==
    /\ other.inf = 0
    /\ RLt(RAbs(RSub(AngValue(angle), AngValue(other.value))), <<1, 1000>>)

\* the locals of the scan before the loop (lines 807-810)
scan_start ==
    [leftmost_angle     |-> Float(1, Zero),
     rightmost_angle    |-> Float(-1, Zero),
     leftmost_vertices  |-> <<>>,
     rightmost_vertices |-> <<>>]

\* one pass of the loop over text_mesh.vertices (lines 813-831); i is the
\* index of the vertex
scan_vertex(s, i, vertex) ==
    IF vertex.co[1] = <<0, 1>> THEN s          \* x = 0 and y = 0
    ELSE
      LET angle == atan2(Angle(vertex.co[2], <<0, 1>>))
          left  == IF FloatLt(angle, s.leftmost_angle)
                   THEN [s EXCEPT !.leftmost_angle = Float(0, angle),
                                  !.leftmost_vertices = <<i>>]
                   ELSE IF WithinTolerance(angle, s.leftmost_angle)
                   THEN [s EXCEPT !.leftmost_vertices = Append(@, i)]
                   ELSE s
      IN  IF FloatGt(angle, left.rightmost_angle)
          THEN [left EXCEPT !.rightmost_angle = Float(0, angle),
                            !.rightmost_vertices = <<i>>]
          ELSE IF WithinTolerance(angle, left.rightmost_angle)
          THEN [left EXCEPT !.rightmost_vertices = Append(@, i)]
          ELSE left

RECURSIVE boundary_scan(_, _)
boundary_scan(verts, n) ==
    IF n = 0 THEN scan_start
    ELSE scan_vertex(boundary_scan(verts, n - 1), n, verts[n])

z_levels == 5

\* index in bm.verts of vertices_grid[(z_idx, angle_idx, r_idx)]; the text
\* side is keyed r_idx + 10
Grid(z_idx, angle_idx, r_idx) == 4 * z_idx + 2 * angle_idx + (r_idx % 10)

\* the faces of the start wedge between levels z_idx and z_idx + 1
StartWedgeFaces(z_idx) ==
    << <<Grid(z_idx, 0, 0), Grid(z_idx, 1, 10),
         Grid(z_idx + 1, 1, 10), Grid(z_idx + 1, 0, 0)>>,        \* inner
       <<Grid(z_idx, 0, 1), Grid(z_idx + 1, 0, 1),
         Grid(z_idx + 1, 1, 11), Grid(z_idx, 1, 11)>>,           \* outer
       <<Grid(z_idx, 0, 0), Grid(z_idx + 1, 0, 0),
         Grid(z_idx + 1, 0, 1), Grid(z_idx, 0, 1)>>,             \* ring side
       <<Grid(z_idx, 1, 10), Grid(z_idx, 1, 11),
         Grid(z_idx + 1, 1, 11), Grid(z_idx + 1, 1, 10)>> >>     \* text side

\* the faces of the end wedge between levels z_idx and z_idx + 1
EndWedgeFaces(z_idx) ==
    << <<Grid(z_idx, 0, 10), Grid(z_idx + 1, 0, 10),
         Grid(z_idx + 1, 1, 0), Grid(z_idx, 1, 0)>>,             \* inner
       <<Grid(z_idx, 0, 11), Grid(z_idx, 1, 1),
         Grid(z_idx + 1, 1, 1), Grid(z_idx + 1, 0, 11)>>,        \* outer
       <<Grid(z_idx, 0, 10), Grid(z_idx, 0, 11),
         Grid(z_idx + 1, 0, 11), Grid(z_idx + 1, 0, 10)>>,       \* text side
       <<Grid(z_idx, 1, 0), Grid(z_idx + 1, 1, 0),
         Grid(z_idx + 1, 1, 1), Grid(z_idx, 1, 1)>> >>           \* ring side

\* the keys of vertices_grid (lines 887-907): the ring-side vertices of a
\* level are stored under r_idx 0 and 1, the text-side ones under 10 and 11;
\* the ring side is angle_idx 0 in the start wedge and 1 in the end wedge
GridKeys(side) ==
    {<<z_idx, angle_idx, r>> \in
        (0..(z_levels - 1)) \X {0, 1} \X {0, 1, 10, 11} :
        (r \in {0, 1}) <=> (angle_idx = (IF side = "start" THEN 0 ELSE 1))}

\* the test guarding the caps of the start wedge (lines 998-1001 and
\* 1023-1026): `(z_idx, a, 0) in vertices_grid for a in [0, 1]` and the keys
\* (z_idx, 0, 1), (z_idx, 1, 10), (z_idx, 1, 11)
StartCapGuard(z_idx) ==
    /\ \A a \in {0, 1} : <<z_idx, a, 0>> \in GridKeys("start")
    /\ <<z_idx, 0, 1>> \in GridKeys("start")
    /\ <<z_idx, 1, 10>> \in GridKeys("start")
    /\ <<z_idx, 1, 11>> \in GridKeys("start")

\* the test guarding the caps of the end wedge (lines 1009-1012 and
\* 1034-1037)
EndCapGuard(z_idx) ==
    /\ <<z_idx, 1, 0>> \in GridKeys("end")
    /\ <<z_idx, 1, 1>> \in GridKeys("end")
    /\ <<z_idx, 0, 10>> \in GridKeys("end")
    /\ <<z_idx, 0, 11>> \in GridKeys("end")

\* bottom and top cap of the start wedge, each created when its guard holds
StartWedgeCaps ==
    (IF StartCapGuard(0)
     THEN << <<Grid(0, 0, 0), Grid(0, 0, 1), Grid(0, 1, 11), Grid(0, 1, 10)>> >>
     ELSE <<>>) \o
    (IF StartCapGuard(z_levels - 1)
     THEN << <<Grid(z_levels - 1, 0, 0), Grid(z_levels - 1, 1, 10),
               Grid(z_levels - 1, 1, 11), Grid(z_levels - 1, 0, 1)>> >>
     ELSE <<>>)

\* bottom and top cap of the end wedge, each created when its guard holds
EndWedgeCaps ==
    (IF EndCapGuard(0)
     THEN << <<Grid(0, 0, 10), Grid(0, 0, 11), Grid(0, 1, 1), Grid(0, 1, 0)>> >>
     ELSE <<>>) \o
    (IF EndCapGuard(z_levels - 1)
     THEN << <<Grid(z_levels - 1, 0, 10), Grid(z_levels - 1, 1, 0),
               Grid(z_levels - 1, 1, 1), Grid(z_levels - 1, 0, 11)>> >>
     ELSE <<>>)

RECURSIVE Flatten(_)
Flatten(ss) == IF ss = <<>> THEN <<>> ELSE Head(ss) \o Flatten(Tail(ss))

\* min / max radius and z of the boundary vertices, or the theoretical
\* values when there are none (lines 858-876)
boundary_extent(cfg, text_verts, boundary_vertices) ==
    LET radii == {text_verts[i].co[1] : i \in Range(boundary_vertices)}
        zs    == {text_verts[i].co[3] : i \in Range(boundary_vertices)}
    IN  IF boundary_vertices # <<>>
        THEN [text_inner_r |-> RMin(radii), text_outer_r |-> RMax(radii),
              text_min_z   |-> RMin(zs),    text_max_z   |-> RMax(zs)]
        ELSE [text_inner_r |-> Rat(cfg.ring.outer_diameter, 2),
              text_outer_r |-> RAdd(Rat(cfg.ring.outer_diameter, 2),
                                    Rat(cfg.text.depth, 1)),
              text_min_z   |-> Rat(-cfg.ring.length, 2),
              text_max_z   |-> Rat(cfg.ring.length, 2)]

\* a wedge three degrees wide
wedge_angle_ThreeDegrees == radians(3)

\* wedge_angle = math.radians(2), the size of the wedge (line 836)
wedge_angle == radians(2)

\* one wedge mesh (lines 838-1033); text_angle is a finite angle
create_wedge(cfg, side, text_angle, text_verts, boundary_vertices) ==
    LET angle1 == IF side = "start" THEN AngSub(text_angle, wedge_angle)
                                    ELSE text_angle
        angle2 == IF side = "start" THEN text_angle
                                    ELSE AngAdd(text_angle, wedge_angle)
        ext == boundary_extent(cfg, text_verts, boundary_vertices)
        ring_side(angle_idx) == (side = "start" /\ angle_idx = 0)
                                \/ (side = "end" /\ angle_idx = 1)
        radius_of(angle_idx, r_idx) ==
            IF ring_side(angle_idx)
            THEN IF r_idx = 0 THEN Rat(cfg.ring.inner_diameter, 2)
                              ELSE Rat(cfg.ring.outer_diameter, 2)
            ELSE IF r_idx = 0 THEN ext.text_inner_r ELSE ext.text_outer_r
        z_coord(z_idx) ==
            RAdd(ext.text_min_z,
                 RMul(RSub(ext.text_max_z, ext.text_min_z),
                      Rat(z_idx, z_levels - 1)))
        faces_of(z_idx) == IF side = "start" THEN StartWedgeFaces(z_idx)
                                             ELSE EndWedgeFaces(z_idx)
    IN  [verts |-> [k \in 1..(4 * z_levels) |->
                      LET z_idx     == (k - 1) \div 4
                          angle_idx == ((k - 1) % 4) \div 2
                          r_idx     == (k - 1) % 2
                      IN  [frame |-> "polar",
                           co |-> <<radius_of(angle_idx, r_idx),
                                    IF angle_idx = 0 THEN angle1 ELSE angle2,
                                    z_coord(z_idx)>>]],
         faces |-> Flatten([z \in 1..(z_levels - 1) |-> faces_of(z - 1)])
                   \o (IF side = "start" THEN StartWedgeCaps
                                         ELSE EndWedgeCaps),
         name  |-> IF side = "start" THEN "Wedge_start" ELSE "Wedge_end"]



\* ------------------------------------------------ volume estimate and export
Dot(a, b) == a[1] * b[1] + a[2] * b[2] + a[3] * b[3]
Cross(a, b) == <<a[2] * b[3] - a[3] * b[2],
                 a[3] * b[1] - a[1] * b[3],
                 a[1] * b[2] - a[2] * b[1]>>

\* a triangulation keeping only the first triangle of every face
Triangles_FirstOnly(f) == <<<<f[1], f[2], f[3]>>>>

\* bmesh.ops.triangulate: the triangles of a face, fanned from its first vertex
Triangles(f) == [k \in 1..(Len(f) - 2) |-> <<f[1], f[k + 1], f[k + 2]>>]

RECURSIVE SumSeq(_)
SumSeq(ns) == IF ns = <<>> THEN 0 ELSE Head(ns) + SumSeq(Tail(ns))

\* 18 * center.dot(normal) * area / 3 of one triangle: with center =
\* (a + b + c) / 3 and normal * area = (b - a) x (c - a) / 2
SignedContribution(a, b, c) ==
    Dot(<<a[1] + b[1] + c[1], a[2] + b[2] + c[2], a[3] + b[3] + c[3]>>,
        Cross(<<b[1] - a[1], b[2] - a[2], b[3] - a[3]>>,
              <<c[1] - a[1], c[2] - a[2], c[3] - a[3]>>))

\* calculate_mesh_volume: abs(sum of center.dot(normal) * area / 3) over the
\* triangulated faces, here 18 times the volume in cubic lattice units; for
\* generated geometry the value is the float the host computes
calculate_mesh_volume(mesh) ==
    IF \A i \in 1..Len(mesh.verts) : Cartesian(mesh.verts[i])
    THEN [volume_mm3 |->
            Abs(SumSeq([i \in 1..Len(mesh.faces) |->
                SumSeq([k \in 1..(Len(mesh.faces[i]) - 2) |->
                    LET t == Triangles(mesh.faces[i])[k]
                    IN  SignedContribution(mesh.verts[t[1] + 1].co,
                                           mesh.verts[t[2] + 1].co,
                                           mesh.verts[t[3] + 1].co)])])),
          faces |-> Len(mesh.faces)]
    ELSE [volume_mm3 |-> "float", faces |-> Len(mesh.faces)]

\* write_json_report(volume_mm3, volume_cm3, weight_g) of ring-flow: nothing
\* without a configured report path; otherwise the report file is written,
\* unless writing raises, which is logged and swallowed
write_json_report(cfg, volume, report_raises) ==
    IF cfg.variant = "flow" /\ cfg.output.report_filename /\ ~report_raises
    THEN volume ELSE <<>>

\* the log lines of write_json_report
ReportLog(cfg, report_raises) ==
    IF cfg.variant # "flow" THEN <<>>
    ELSE IF ~cfg.output.report_filename THEN <<>>
    ELSE IF report_raises
    THEN <<Log("ERROR", "Failed to write JSON report")>>
    ELSE <<Log("INFO", "Written JSON report")>>

\* the first half of export_stl in ring-emboss and ring-flow: the volume
\* estimate, the weight lines and the report, or the warning when
\* calculate_mesh_volume returned (None, None)
VolumeLog(cfg, volume, report_raises) ==
    <<Log("INFO", "Calculating mesh volume")>> \o
    (IF volume # <<>>
     THEN <<Log("INFO", "Mesh volume"), Log("INFO", "Estimated weight")>> \o
          ReportLog(cfg, report_raises)
     ELSE <<Log("ERROR", "Failed to calculate volume"),
            Log("WARNING", "Could not calculate mesh volume")>>) \o
    <<Log("INFO", "Exporting STL")>>

\* the report left by export_stl: written inside the branch
\* `if volume_mm3 is not None`
ReportOf(cfg, volume, report_raises) ==
    IF volume # <<>> THEN write_json_report(cfg, volume, report_raises)
    ELSE <<>>

\* export_stl returning True whether or not the STL file was written
ExportExit_AlwaysTrue(exported) == <<0>>

\* export_stl returns True when the STL file exists after the export and
\* False otherwise; run() turns that into its return value 0 or 2
ExportExit(exported) == IF exported THEN <<0>> ELSE <<2>>

\* export_stl(final_obj) and the return of run() after it: the volume
\* estimate (ring-emboss, ring-flow), the STL export, exit code 0 or 2
ExportStl ==
    /\ pc = "merged"
    /\ \E volume_raises, report_raises, export_raises \in BOOLEAN :
        LET alive     == Alive(scene, combined)
            estimated == config.variant # "blender"
            volume    == IF alive /\ ~volume_raises
                         THEN <<calculate_mesh_volume(combined)>> ELSE <<>>
            exported  == alive /\ ~export_raises
        IN  /\ ~alive => (volume_raises /\ export_raises)
            /\ ~estimated => ~volume_raises
            /\ report_raises =>
                  /\ config.variant = "flow"
                  /\ config.output.report_filename
                  /\ alive /\ ~volume_raises
            /\ log_messages' = log_messages \o
                 (IF estimated
                  THEN VolumeLog(config, volume, report_raises) ELSE <<>>) \o
                 (IF exported
                  THEN <<Log("INFO", "Successfully exported STL"),
                         Log("INFO", "Ring generation completed")>>
                  ELSE <<Log("ERROR", "Failed to export STL")>>)
            /\ output' = [stl    |-> IF exported
                                     THEN <<[verts |-> combined.verts,
                                             faces |-> combined.faces]>>
                                     ELSE <<>>,
                          report |-> IF estimated
                                     THEN ReportOf(config, volume,
                                                   report_raises)
                                     ELSE <<>>]
            /\ exit_code' = ExportExit(exported)
    /\ pc' = "done"
    /\ UNCHANGED <<config, ring_obj, text_obj, arc, merge_in, combined,
                   font_mesh, scan, scene>>

\* a triangle whose three vertices lie within the weld threshold
SliverAt(k) ==
    [verts |-> <<Point(k, 0, 0), Point(k + 1, 0, 0), Point(k, 1, 0)>>,
     faces |-> <<<<0, 1, 2>>>>, name |-> "Sliver"]

\* a closed tetrahedron, every face wound outwards
TetraAt(k) ==
    [verts |-> <<Point(k, 0, 0), Point(k + 4, 0, 0), Point(k, 4, 0),
                 Point(k, 0, 4)>>,
     faces |-> <<<<0, 2, 1>>, <<0, 1, 3>>, <<0, 3, 2>>, <<1, 2, 3>>>>,
     name  |-> "Tetra"]

\* the meshes handed to the merge and then to the estimate
ExportMeshes ==
    {EmptyMesh, SliverAt(0), TriAt(0), TetraAt(0), TetraAt(9)}

InitExport ==
    /\ pc = "parts"
    /\ \E rep \in BOOLEAN :
          config = [variant  |-> "flow",
                    material |-> [name |-> "PLA", density |-> <<124, 100>>],
                    output   |-> [report_filename |-> rep]]
    /\ ring_obj \in ExportMeshes
    /\ text_obj \in ExportMeshes
    /\ \E wedge_objs \in WedgeLists :
          merge_in = [ring_obj |-> ring_obj, text_obj |-> text_obj,
                      wedge_objs |-> wedge_objs]
    /\ arc = <<>>
    /\ combined = None
    /\ log_messages = <<>>
    /\ font_mesh = None
    /\ scan = <<>>
    /\ exit_code = <<>>
    /\ output = NoOutput
    /\ scene = Originals(ring_obj, text_obj, merge_in.wedge_objs)

NextExport == CombineRingAndText \/ CombineRingAndTextWithWedges \/ ExportStl

SpecExport == InitExport /\ [][NextExport]_vars

Logged(level, message) == Log(level, message) \in Range(log_messages)

\* C19: when the merged mesh has no face left after welding, the run ends
\* with a failure exit code, export_stl is not invoked and no STL is written.
EmptyMeshNotExported ==
    (pc = "done" /\ combined.faces = <<>>) =>
        /\ exit_code # <<0>>
        /\ output.stl = <<>>
        /\ ~Logged("INFO", "Exporting STL")

\* C20: when the mesh handed to calculate_mesh_volume is not closed or not
\* consistently oriented, no volume or weight figure is reported for it and a
\* warning is logged instead.
VolumeOnlyOfClosedMesh ==
    (/\ pc = "done"
     /\ Logged("INFO", "Calculating mesh volume")
     /\ ~(Watertight(combined) /\ CoherentWinding(combined))) =>
        /\ output.report = <<>>
        /\ ~Logged("INFO", "Estimated weight")
        /\ Logged("WARNING", "Could not calculate mesh volume")


\* ------------------------------------------------------------ run pipeline
\* x positions of glyph vertices, in units of 1/113 mm: on a radius of 10 mm
\* neighbouring positions are 1/1130 rad apart, within the tolerance of 0.001
\* of the boundary scan, and positions two units apart are not
RunColumns == {-565, -564, 564, 565}

\* the orders in which the host may store up to MaxColumns vertex columns
Orders(S) ==
    {s \in UNION {[1..n -> S] : n \in 1..MaxColumns} :
        \A i, j \in DOMAIN s : i # j => s[i] # s[j]}

\* the rendered text with its vertex columns at the given positions, in the
\* order given
ScaledText(columns) ==
    LET m == FlatText(columns, 1, 2)
    IN  [m EXCEPT !.verts =
           [j \in 1..Len(m.verts) |->
              [frame |-> "flat",
               co    |-> <<Rat(columns[((j - 1) \div 4) + 1], 113),
                           m.verts[j].co[2], m.verts[j].co[3]>>]]]

\* what bpy.ops.object.convert leaves for a text none of whose characters
\* has a glyph in the font: a mesh without vertices
EmptyText == [verts |-> <<>>, faces |-> <<>>, name |-> "Text"]

RunFontMeshes == {ScaledText(s) : s \in Orders(RunColumns)} \cup {EmptyText}

FlowRunConfigs ==
    {[variant  |-> "flow",
      ring     |-> [inner_diameter |-> 16, outer_diameter |-> 20,
                    length |-> 6,
                    radial_segments |-> 3, vertical_segments |-> V],
      text     |-> [depth |-> 1, direction |-> dir],
      material |-> [name |-> "PLA", density |-> <<124, 100>>],
      output   |-> [report_filename |-> rep]] :
        dir \in {"normal", "inverted"}, V \in {1, 2}, rep \in BOOLEAN}

EmbossRunConfigs ==
    {[variant  |-> "emboss",
      ring     |-> [inner_diameter |-> 16, outer_diameter |-> 20,
                    length |-> 6,
                    radial_segments |-> 3, vertical_segments |-> 1],
      text     |-> [depth |-> 1, direction |-> dir],
      material |-> [name |-> "PLA", density |-> <<124, 100>>]] :
        dir \in {"normal", "inverted"}}

BlenderRunConfigs ==
    {[variant |-> "blender",
      ringInnerDiameter |-> 16, ringOuterDiameter |-> 20, ringLength |-> 6,
      textDepth |-> 1, isEmbossed |-> e, isCarved |-> ~e] : e \in BOOLEAN}

\* the objects of Blender's startup scene
StartupScene == {Object("Cube", "host")}

InitRun ==
    /\ pc = "start"
    /\ \/ /\ config \in FlowRunConfigs
          /\ font_mesh \in RunFontMeshes
       \/ /\ config \in EmbossRunConfigs \cup BlenderRunConfigs
          /\ font_mesh \in {ScaledText(<<-565, 565>>), EmptyText}
    /\ ring_obj = None
    /\ text_obj = None
    /\ arc = <<>>
    /\ merge_in = <<>>
    /\ combined = None
    /\ log_messages = <<>>
    /\ scan = <<>>
    /\ exit_code = <<>>
    /\ output = NoOutput
    /\ scene = StartupScene

\* clear_scene: select_all + delete, then every mesh, curve and font of
\* bpy.data is removed
ClearScene ==
    /\ pc = "start"
    /\ scene' = {}
    /\ log_messages' = Append(log_messages, Log("INFO", "Scene cleared"))
    /\ pc' = "config"
    /\ UNCHANGED <<config, ring_obj, text_obj, arc, merge_in, combined,
                   font_mesh, scan, exit_code, output>>

\* the mesh of another request's text: a wrapped bar 4 mm wide
OtherText ==
    curve_text_mesh_flow(ScaledText(<<-226, 226>>), <<10, 1>>, "normal")

\* text_obj.data of the object found under the name "Text"
MeshOf(obj) == IF obj.owner = "self" THEN text_obj ELSE OtherText

\* create_transition_wedges and the test run() makes of its result
CreateTransitionWedges ==
    /\ pc = "ring"
    /\ config.variant = "flow"
    /\ LET found == {obj \in scene : obj.name = "Text"}
       IN  IF found = {}
           THEN /\ log_messages' = log_messages \o
                      <<Log("INFO", "Creating transition wedges"),
                        Log("WARNING",
                            "Could not find text object for wedge creation"),
                        Log("WARNING",
                            "Failed to create transition wedges")>>
                /\ merge_in' = [ring_obj |-> ring_obj, text_obj |-> text_obj,
                                wedge_objs |-> <<>>]
                /\ pc' = "parts"
                /\ UNCHANGED <<scan, scene>>
           ELSE \E text_mesh \in {MeshOf(CHOOSE obj \in found : TRUE)} :
                \E s \in {boundary_scan(text_mesh.verts,
                                        Len(text_mesh.verts))} :
                LET start == create_wedge(config, "start",
                                          s.leftmost_angle.value,
                                          text_mesh.verts,
                                          s.leftmost_vertices)
                    end   == create_wedge(config, "end",
                                          s.rightmost_angle.value,
                                          text_mesh.verts,
                                          s.rightmost_vertices)
                IN  /\ scan' = s
                    /\ IF s.leftmost_angle.inf # 0
                       THEN \* math.sin(angle) of an infinite angle raises
                            /\ scene' = Link(scene, "Wedge_start")
                            /\ log_messages' = log_messages \o
                                 <<Log("INFO", "Creating transition wedges"),
                                   Log("INFO", "Found text boundaries"),
                                   Log("INFO", "Wedge start")>>
                            /\ pc' = "raised"
                            /\ UNCHANGED merge_in
                       ELSE /\ scene' = Link(Link(scene, "Wedge_start"),
                                             "Wedge_end")
                            /\ log_messages' = log_messages \o
                                 <<Log("INFO", "Creating transition wedges"),
                                   Log("INFO", "Found text boundaries"),
                                   Log("INFO", "Wedge start"),
                                   Log("INFO", "Wedge end"),
                                   Log("INFO", "Created transition wedges")>>
                            /\ merge_in' =
                                 [ring_obj |-> ring_obj,
                                  text_obj |-> text_obj,
                                  wedge_objs |->
                                    <<[start EXCEPT
                                         !.name = NewName(scene, @)],
                                      [end EXCEPT
                                         !.name = NewName(scene, @)]>>]
                            /\ pc' = "parts"
    /\ UNCHANGED <<config, ring_obj, text_obj, arc, combined, font_mesh,
                   exit_code, output>>

\* ring-blender combine_ring_and_text: bpy.ops.object.join for embossed
\* text, a boolean DIFFERENCE modifier of the host for carved text (EXACT
\* solver, then FAST, then the ring as it is)
CombineRingAndTextBlender ==
    /\ pc = "text"
    /\ config.variant = "blender"
    /\ IF ~(Alive(scene, ring_obj) /\ Alive(scene, text_obj))
       THEN /\ pc' = "raised"
            /\ log_messages' = log_messages
            /\ UNCHANGED <<combined, scene>>
       ELSE IF config.isCarved
       THEN \E solver \in {"EXACT", "FAST", "none"} :
            /\ combined' = [verts |-> ring_obj.verts,
                            faces |-> ring_obj.faces,
                            name  |-> ring_obj.name,
                            carved_by |-> IF solver = "none" THEN <<>>
                                          ELSE <<text_obj.name, solver>>]
            /\ scene' = IF solver = "none" THEN scene
                        ELSE scene \ {Object(text_obj.name, "self")}
            /\ log_messages' = log_messages \o
                 <<Log("INFO", "Applying boolean difference")>> \o
                 (IF solver # "EXACT"
                  THEN <<Log("WARNING", "Boolean operation failed")>>
                  ELSE <<>>) \o
                 (IF solver = "none"
                  THEN <<Log("ERROR", "Boolean operation failed completely")>>
                  ELSE <<>>)
            /\ pc' = "merged"
       ELSE /\ LET cat == concatenate(ring_obj, text_obj)
               IN  combined' = [verts |-> cat.all_verts,
                                faces |-> cat.all_faces,
                                name  |-> ring_obj.name]
            /\ scene' = scene \ {Object(text_obj.name, "self")}
            /\ log_messages' = Append(log_messages,
                                      Log("INFO", "Joining meshes"))
            /\ pc' = "merged"
    /\ UNCHANGED <<config, ring_obj, text_obj, arc, merge_in, font_mesh,
                   scan, exit_code, output>>

\* run() returning 0 after a failure
Abort_ReturnsZero ==
    /\ pc \in {"failed", "combine_failed", "raised"}
    /\ exit_code' = <<0>>
    /\ pc' = "done"
    /\ UNCHANGED <<config, ring_obj, text_obj, arc, merge_in, combined,
                   log_messages, font_mesh, scan, output, scene>>

\* the failure returns of run(): 4 when the text could not be created
\* (ring-flow, ring-emboss), 3 when combining failed or a step raised
Abort ==
    /\ pc \in {"failed", "combine_failed", "raised"}
    /\ log_messages' = log_messages \o
         (IF pc = "failed" THEN <<Log("ERROR", "Failed to create text")>>
          ELSE IF pc = "combine_failed"
          THEN <<Log("ERROR", "Failed to combine geometry")>>
          ELSE <<Log("ERROR", "Unexpected error"),
                 Log("ERROR", "Traceback")>>)
    /\ exit_code' = IF pc = "failed" /\ config.variant # "blender"
                    THEN <<4>> ELSE <<3>>
    /\ pc' = "done"
    /\ UNCHANGED <<config, ring_obj, text_obj, arc, merge_in, combined,
                   font_mesh, scan, output, scene>>

NextRun ==
    \/ ClearScene
    \/ CreateTextAndCalculateArc
    \/ CreatePartialRing
    \/ CreateTransitionWedges
    \/ CombineRingAndText
    \/ CombineRingAndTextWithWedges
    \/ CreateRing
    \/ CreateTextAt("ring")
    \/ CreateRingBlender
    \/ CreateTextBlenderAt("ring")
    \/ CombineRingAndTextBlender
    \/ ExportStl
    \/ Abort

SpecRun == InitRun /\ [][NextRun]_vars

\* the angle atan2 gives for a wrapped vertex, as a number
AngleOf(vertex) == AngValue(atan2(Angle(vertex.co[2], <<0, 1>>)))

OffAxis(verts) == {i \in 1..Len(verts) : verts[i].co[1] # <<0, 1>>}

\* the off-axis vertices whose angle is within 0.001 of the least (sign = 1)
\* or of the greatest (sign = -1) angle of all off-axis vertices
ClusterAt(verts, sign) ==
    LET off == OffAxis(verts)
        key(i) == IF sign = 1 THEN AngleOf(verts[i])
                                ELSE RNeg(AngleOf(verts[i]))
    IN  {i \in off : \A j \in off :
            RLt(RSub(key(i), key(j)), <<1, 1000>>)}

\* C13: after the boundary scan of create_transition_wedges the left cluster
\* is exactly the set of off-axis text vertices within 0.001 of the least
\* angle and the right cluster the set within 0.001 of the greatest angle,
\* whatever the order of the vertices.
BoundaryClustersExact ==
    (pc = "parts" /\ config.variant = "flow") =>
        /\ Range(scan.leftmost_vertices) = ClusterAt(text_obj.verts, 1)
        /\ Range(scan.rightmost_vertices) = ClusterAt(text_obj.verts, -1)

\* C14: when a boundary cluster is empty no bridge object exists for that
\* side, a warning is in the log and the run has gone through the merge and
\* the export.
EmptyClusterSkipsBridge ==
    (/\ pc = "done"
     /\ Logged("INFO", "Found text boundaries")
     /\ scan.leftmost_vertices = <<>>) =>
        /\ \A obj \in scene : obj.name # "Wedge_start"
        /\ \E i \in 1..Len(log_messages) : log_messages[i][1] = "WARNING"
        /\ Logged("INFO", "Merging ring and text meshes")
        /\ output.stl # <<>>

\* C15: each wedge built by create_transition_wedges is closed: every
\* directed edge of its 4 * 4 side quads and 2 caps is used once and met by
\* its reverse once, so every undirected edge belongs to exactly 2 faces.
WedgesClosed ==
    (pc = "parts" /\ config.variant = "flow") =>
        \A w \in 1..Len(merge_in.wedge_objs) :
            LET wedge == merge_in.wedge_objs[w]
            IN  /\ Watertight(wedge)
                /\ Len(wedge.faces) = 4 * (z_levels - 1) + 2
                /\ \A f \in 1..Len(wedge.faces) : Len(wedge.faces[f]) = 4

\* the log messages that mark a stage of the pipeline
StageMarks ==
    [Build    |-> {"Created ring", "Created partial ring"},
     Wrap     |-> {"Curving text around ring", "Created text"},
     Allocate |-> {"Text arc"},
     Stitch   |-> {"Creating transition wedges"},
     Merge    |-> {"Merging ring and text meshes",
                   "Merging ring, text, and wedge meshes",
                   "Joining meshes", "Applying boolean difference"},
     Estimate |-> {"Calculating mesh volume"}]

StageAt(stage) ==
    {i \in 1..Len(log_messages) : log_messages[i][2] \in StageMarks[stage]}

\* of the stages that have run, each one of `order` came after the ones
\* before it
StagesOrdered(order) ==
    \A a, b \in 1..Len(order) :
        a < b => \A i \in StageAt(order[a]), j \in StageAt(order[b]) : i < j

\* C16 as stated: the stages of every run occur in the order Build, Wrap,
\* Allocate, Stitch, Merge, Estimate.
StagesInStatedOrder ==
    StagesOrdered(<<"Build", "Wrap", "Allocate", "Stitch", "Merge",
                    "Estimate">>)

\* C16: the stages of a ring-flow run occur in the order Allocate, Wrap,
\* Build, Stitch, Merge, Estimate (the partial ring is built from the
\* allocated arc); those of a ring-emboss or ring-blender run in the order
\* Build, Wrap, Merge, Estimate.
StagesInVariantOrder ==
    IF config.variant = "flow"
    THEN StagesOrdered(<<"Allocate", "Wrap", "Build", "Stitch", "Merge",
                         "Estimate">>)
    ELSE /\ StagesOrdered(<<"Build", "Wrap", "Merge", "Estimate">>)
         /\ StageAt("Allocate") = {}
         /\ StageAt("Stitch") = {}

FlowRunThroughAllStages ==
    /\ pc = "done"
    /\ config.variant = "flow"
    /\ exit_code = <<0>>
    /\ \A stage \in DOMAIN StageMarks : StageAt(stage) # {}

\* C18 as stated: in every variant, once the font failed to load no text
\* mesh is created, no STL is written and run() returns a non-zero code.
FontFailureAborts ==
    Logged("ERROR", "Failed to load font") =>
        /\ text_obj = None
        /\ output.stl = <<>>
        /\ exit_code # <<0>>

\* C18: in ring-flow and ring-emboss, once the font failed to load no text
\* mesh is created, no STL is written and run() returns 4; ring-blender logs
\* the warning that it falls back to the default font and goes on.
FontFailureAbortsOrFallsBack ==
    Logged("ERROR", "Failed to load font") =>
        IF config.variant = "blender"
        THEN Logged("WARNING", "Using default Blender font")
        ELSE /\ text_obj = None
             /\ output.stl = <<>>
             /\ exit_code # <<0>>
             /\ pc = "done" => exit_code = <<4>>

RunAbortedOnFont ==
    /\ pc = "done"
    /\ config.variant = "emboss"
    /\ Logged("ERROR", "Failed to load font")
    /\ exit_code = <<4>>
    /\ ring_obj # None


\* ------------------------------------------- two requests in one process
\* A second RingTextGenerator runs in the same Blender process, its stages
\* interleaved with the stages of this one; bpy.data is shared by both.

InitTwo ==
    /\ InitRun
    /\ config \in FlowRunConfigs
    /\ font_mesh \in {ScaledText(<<-565, 565>>), ScaledText(<<564, -565, 565>>)}

\* clear_scene of the other request: every object of the process is deleted
OtherClearScene ==
    /\ pc # "done"
    /\ scene # {}
    /\ scene' = {}
    /\ UNCHANGED <<pc, config, ring_obj, text_obj, arc, merge_in, combined,
                   log_messages, font_mesh, scan, exit_code, output>>

\* create_text_and_calculate_arc of the other request: bpy.data.objects.new
\* ("Text", curve)
OtherCreateText ==
    /\ pc # "done"
    /\ \A obj \in scene : obj.owner # "other"
    /\ scene' = scene \cup {Object(NewName(scene, "Text"), "other")}
    /\ UNCHANGED <<pc, config, ring_obj, text_obj, arc, merge_in, combined,
                   log_messages, font_mesh, scan, exit_code, output>>

NextTwo ==
    \/ ClearScene
    \/ CreateTextAndCalculateArc
    \/ CreatePartialRing
    \/ CreateTransitionWedges
    \/ CombineRingAndText
    \/ CombineRingAndTextWithWedges
    \/ ExportStl
    \/ Abort
    \/ OtherClearScene
    \/ OtherCreateText

SpecTwo == InitTwo /\ [][NextTwo]_vars

\* C17: the stages of another request interleaved with this one do not
\* interfere: the objects this request holds are not deleted by the other
\* request, and the wedge builder scans the text of this request.
RequestsDoNotInterfere ==
    /\ pc \in {"text", "ring", "parts"} => Alive(scene, text_obj)
    /\ pc \in {"ring", "parts"} => Alive(scene, ring_obj)
    /\ pc = "merged" => Alive(scene, combined)
    /\ (pc \in {"parts", "raised"} /\ Logged("INFO", "Found text boundaries"))
          => scan = boundary_scan(text_obj.verts, Len(text_obj.verts))

\* ------------------------------------------------- export and report claims
\* C21: when calculate_mesh_volume fails and returns (None, None), export_stl
\* logs a WARNING, reports no weight estimate and writes no JSON report, and
\* still attempts the STL export; what export_stl returns (exit code 0 or 2
\* of the run) depends only on whether the STL file was written.
VolumeFailureStillExports ==
    (pc = "done" /\ Logged("ERROR", "Failed to calculate volume")) =>
        /\ Logged("WARNING", "Could not calculate mesh volume")
        /\ ~Logged("INFO", "Estimated weight")
        /\ ~Logged("INFO", "Written JSON report")
        /\ output.report = <<>>
        /\ Logged("INFO", "Exporting STL")
        /\ (exit_code = <<0>>) <=> (output.stl # <<>>)

\* a run whose volume estimate failed and whose STL file was written
VolumeFailedAndExported ==
    /\ pc = "done"
    /\ Logged("ERROR", "Failed to calculate volume")
    /\ output.stl # <<>>
    /\ exit_code = <<0>>

\* C29: in ring-flow the JSON report, which names the STL file, is written
\* only in runs where the STL export succeeds: whenever the report file has
\* been written, export_stl returns True and run() returns 0.
ReportOnlyWithStl ==
    (pc = "done" /\ config.variant = "flow" /\ output.report # <<>>) =>
        /\ output.stl # <<>>
        /\ exit_code = <<0>>

\* ------------------------------------------------------ validated requests
\* validate_config on the ring and material parameters: the message of the
\* first check that fails, or "ok"; ring-blender has no segment counts and
\* no material in its configuration
validate_config(cfg) ==
    IF cfg.variant = "blender"
    THEN IF cfg.ringInnerDiameter <= 0 \/ cfg.ringOuterDiameter <= 0
            \/ cfg.ringLength <= 0
         THEN "Ring dimensions must be positive"
         ELSE IF cfg.ringInnerDiameter >= cfg.ringOuterDiameter
         THEN "Inner diameter must be less than outer diameter"
         ELSE "ok"
    ELSE IF cfg.variant = "flow" /\ cfg.material.density[1] <= 0
    THEN "Material density must be positive"
    ELSE IF cfg.ring.inner_diameter <= 0 \/ cfg.ring.outer_diameter <= 0
            \/ cfg.ring.length <= 0
    THEN "Ring dimensions must be positive"
    ELSE IF cfg.ring.inner_diameter >= cfg.ring.outer_diameter
    THEN "Inner diameter must be less than outer diameter"
    ELSE IF cfg.ring.radial_segments < 128
    THEN "radial_segments must be >= 128"
    ELSE IF cfg.ring.vertical_segments < 32
    THEN "vertical_segments must be >= 32"
    ELSE "ok"

\* the requests handed to run(): ring parameters on both sides of every
\* bound validate_config checks
FlowCheckedConfigs ==
    {[variant  |-> "flow",
      ring     |-> [inner_diameter |-> inner, outer_diameter |-> 20,
                    length |-> length,
                    radial_segments |-> R, vertical_segments |-> V],
      text     |-> [depth |-> 1, direction |-> "normal"],
      material |-> [name |-> "PLA", density |-> density],
      output   |-> [report_filename |-> FALSE]] :
        inner \in {16, 20, 24}, length \in {0, 5, 6}, R \in {127, 128},
        V \in {31, 32}, density \in {<<0, 1>>, <<124, 100>>}}

EmbossCheckedConfigs ==
    {[variant  |-> "emboss",
      ring     |-> [inner_diameter |-> inner, outer_diameter |-> 20,
                    length |-> length,
                    radial_segments |-> R, vertical_segments |-> V],
      text     |-> [depth |-> 1, direction |-> "normal"]] :
        inner \in {16, 20, 24}, length \in {0, 5, 6}, R \in {127, 128},
        V \in {31, 32}}

BlenderCheckedConfigs ==
    {[variant |-> "blender",
      ringInnerDiameter |-> inner, ringOuterDiameter |-> 20,
      ringLength |-> length,
      textDepth |-> 1, isEmbossed |-> e, isCarved |-> ~e] :
        inner \in {16, 20, 24}, length \in {0, 5, 6}, e \in BOOLEAN}

\* run() after load_config succeeded
InitConfig ==
    /\ pc = "loaded"
    /\ config \in FlowCheckedConfigs \cup EmbossCheckedConfigs
                    \cup BlenderCheckedConfigs
    /\ font_mesh = ScaledText(<<-565, 565>>)
    /\ ring_obj = None
    /\ text_obj = None
    /\ arc = <<>>
    /\ merge_in = <<>>
    /\ combined = None
    /\ log_messages = <<>>
    /\ scan = <<>>
    /\ exit_code = <<>>
    /\ output = NoOutput
    /\ scene = StartupScene

\* `if not self.validate_config(): return 1` of run()
ValidateConfig ==
    /\ pc = "loaded"
    /\ \E verdict \in {validate_config(config)} :
          IF verdict = "ok"
          THEN /\ log_messages' =
                    Append(log_messages,
                           Log("INFO", "Configuration validation successful"))
               /\ pc' = "start"
               /\ UNCHANGED exit_code
          ELSE /\ log_messages' = Append(log_messages, Log("ERROR", verdict))
               /\ exit_code' = <<1>>
               /\ pc' = "done"
    /\ UNCHANGED <<config, ring_obj, text_obj, arc, merge_in, combined,
                   font_mesh, scan, output, scene>>

NextConfig ==
    \/ ValidateConfig
    \/ ClearScene
    \/ CreateRing
    \/ CreateRingBlender
    \/ CreateTextAndCalculateArc
    \/ CreatePartialRing

SpecConfig == InitConfig /\ [][NextConfig]_vars

\* the number of axial levels of a ring body
AxialLevels(mesh) ==
    Cardinality({mesh.verts[i].z : i \in 1..Len(mesh.verts)})

\* the RingSpec parameters a ring body was built with: the configured ones
\* in ring-emboss and ring-flow; in ring-blender the diameters and length of
\* the configuration, the segment count fixed in create_ring and its two
\* axial levels
RingSpecInUse(cfg, mesh) ==
    IF cfg.variant = "blender"
    THEN [inner_diameter    |-> cfg.ringInnerDiameter,
          outer_diameter    |-> cfg.ringOuterDiameter,
          length            |-> cfg.ringLength,
          radial_segments   |-> vertices,
          vertical_segments |-> AxialLevels(mesh) - 1]
    ELSE [cfg.ring EXCEPT !.vertical_segments = AxialLevels(mesh) - 1]

\* the RingSpec constraints
SatisfiesRingSpec(ring) ==
    /\ ring.inner_diameter < ring.outer_diameter
    /\ ring.length > 0
    /\ ring.radial_segments >= 128
    /\ ring.vertical_segments >= 32

\* the constraints a request states on its own parameters
RequestSatisfiesRingSpec(cfg) ==
    IF cfg.variant = "blender"
    THEN cfg.ringInnerDiameter < cfg.ringOuterDiameter /\ cfg.ringLength > 0
    ELSE /\ SatisfiesRingSpec(cfg.ring)
         /\ cfg.variant = "flow" => cfg.material.density[1] > 0

\* C23: whenever a ring body is built, the ring parameters in use satisfy
\* the RingSpec constraints (inner < outer, length > 0, radial_segments >=
\* 128, vertical_segments >= 32, density > 0 where a material is used); a
\* configuration violating any of them makes validate_config return False
\* and run() return 1 before any geometry is created.
RingBuiltFromValidSpec ==
    /\ ring_obj # None =>
          /\ SatisfiesRingSpec(RingSpecInUse(config, ring_obj))
          /\ config.variant = "flow" => config.material.density[1] > 0
    /\ (pc # "loaded" /\ ~RequestSatisfiesRingSpec(config)) =>
          /\ pc = "done"
          /\ exit_code = <<1>>
          /\ ring_obj = None /\ text_obj = None
          /\ scene = StartupScene

\* ------------------------------------------------------ wrap invertibility
\* x = vertex.co.x - text_center_x of vertex i of the mesh before the wrap
CentredX(mesh, i) ==
    RSub(mesh.verts[i].co[1],
         RMul(RAdd(bound_box(mesh).min_x, bound_box(mesh).max_x), Half))

\* the radius the text is wrapped on: the outer radius of the ring
WrapRadius(cfg) ==
    IF cfg.variant = "blender" THEN Rat(cfg.ringOuterDiameter, 2)
    ELSE Rat(cfg.ring.outer_diameter, 2)

\* the x recovered from a wrapped vertex: the angle atan2(new_x, new_y) of
\* its position, times the wrap radius
RecoveredX(vertex, radius) ==
    RMul(AngValue(atan2(Angle(vertex.co[2], <<0, 1>>))), radius)

\* the pre-wrap x the recovered one is compared with
ExpectedX(cfg, x) ==
    IF cfg.variant # "blender" /\ cfg.text.direction = "inverted"
    THEN RNeg(x) ELSE x

\* |x| / radius < pi
HalfSpanBelowPi(x, radius) == RLt(RDiv(RAbs(x), radius), Pi)

\* C24: the cylindrical wrap is invertible per vertex: for every wrapped
\* vertex, the angle recovered from its position times the wrap radius is
\* the pre-wrap centred x (negated for the inverted direction), for every x
\* the wrap accepts.
WrapInvertible ==
    WrappedText =>
        \A i \in 1..Len(text_obj.verts) :
            text_obj.verts[i].frame = "cylindrical" =>
                RecoveredX(text_obj.verts[i], WrapRadius(config)) =
                    ExpectedX(config, CentredX(font_mesh, i))

\* C24 (amended): the same for every wrapped vertex whose centred x
\* satisfies |x| / radius < pi.
WrapInvertibleBelowPi ==
    WrappedText =>
        \A i \in 1..Len(text_obj.verts) :
            (/\ text_obj.verts[i].frame = "cylindrical"
             /\ HalfSpanBelowPi(CentredX(font_mesh, i), WrapRadius(config)))
            => RecoveredX(text_obj.verts[i], WrapRadius(config)) =
                   ExpectedX(config, CentredX(font_mesh, i))

\* an inverted text whose vertices all lie within half a turn of the centre,
\* some of them off the centre
InvertedTextWrapped ==
    /\ WrappedText
    /\ config.variant = "flow"
    /\ config.text.direction = "inverted"
    /\ \A i \in 1..Len(text_obj.verts) :
          HalfSpanBelowPi(CentredX(font_mesh, i), WrapRadius(config))
    /\ \E i \in 1..Len(text_obj.verts) :
          CentredX(font_mesh, i) # <<0, 1>>

\* ------------------------------------------------- volume of the full ring
\* the step of a full-ring vertex round the circle: its angle is
\* 2 * pi * step / R
StepOf(v, R) == v.turn[1] * (R \div v.turn[2])

\* sin(angle of b - angle of a) for two vertices of one face of the full
\* ring, as a multiple of sin(2 * pi / R): the vertices of a face are at the
\* same step or at neighbouring steps
SinSteps(a, b, R) ==
    LET d == (StepOf(b, R) - StepOf(a, R) + R) % R
    IN  IF d = 0 THEN 0 ELSE IF d = 1 THEN 1 ELSE IF d = R - 1 THEN -1
        ELSE "more than one step apart"

\* a.x * b.y - a.y * b.x, with x = r * cos(angle) and y = r * sin(angle), as
\* a multiple of sin(2 * pi / R)
PlaneCross(a, b, R) ==
    RMul(RMul(a.radius, b.radius), Rat(SinSteps(a, b, R), 1))

\* 18 * center.dot(normal) * area / 3 of the triangle (a, b, c) of the full
\* ring, i.e. 3 * a.dot(b x c), as a multiple of sin(2 * pi / R)
RingContribution(a, b, c, R) ==
    RMul(<<3, 1>>,
         RAdd(RMul(c.z, PlaneCross(a, b, R)),
              RAdd(RMul(a.z, PlaneCross(b, c, R)),
                   RMul(b.z, PlaneCross(c, a, R)))))

\* the contributions of the triangles of face i
FaceContribution(mesh, i, R) ==
    LET t == Triangles(mesh.faces[i])
    IN  IF Len(t) = 1
        THEN RingContribution(mesh.verts[t[1][1] + 1],
                              mesh.verts[t[1][2] + 1],
                              mesh.verts[t[1][3] + 1], R)
        ELSE RAdd(RingContribution(mesh.verts[t[1][1] + 1],
                                   mesh.verts[t[1][2] + 1],
                                   mesh.verts[t[1][3] + 1], R),
                  RingContribution(mesh.verts[t[2][1] + 1],
                                   mesh.verts[t[2][2] + 1],
                                   mesh.verts[t[2][3] + 1], R))

\* the sum of the contributions of the faces lo..hi
RECURSIVE SumFaces(_, _, _, _)
SumFaces(mesh, R, lo, hi) ==
    IF lo > hi THEN <<0, 1>>
    ELSE IF lo = hi THEN FaceContribution(mesh, lo, R)
    ELSE RAdd(SumFaces(mesh, R, lo, (lo + hi) \div 2),
              SumFaces(mesh, R, ((lo + hi) \div 2) + 1, hi))

\* calculate_mesh_volume of a full ring of R radial segments: abs of the sum
\* over the triangles, here as the rational q with
\* volume_mm3 = q * sin(2 * pi / R) / 18
ring_volume(mesh, R) == RAbs(SumFaces(mesh, R, 1, Len(mesh.faces)))

\* the ring of the end-to-end scenario (inner radius 16, outer radius 20,
\* length 6, 256 by 64 segments) and smaller rings
VolumeRingConfigs ==
    {[variant |-> "emboss",
      ring    |-> [inner_diameter |-> 32, outer_diameter |-> 40,
                   length |-> 6,
                   radial_segments |-> 256, vertical_segments |-> 64]]}
    \cup
    {[variant |-> "emboss",
      ring    |-> [inner_diameter |-> d[1], outer_diameter |-> d[2],
                   length |-> length,
                   radial_segments |-> R, vertical_segments |-> V]] :
        d \in {<<32, 40>>, <<16, 20>>, <<16, 40>>}, length \in {5, 6},
        R \in {3, 4, 5, 6, 18, 19}, V \in {1, 2, 3}}

InitVolume ==
    /\ pc = "config"
    /\ config \in VolumeRingConfigs
    /\ ring_obj = None
    /\ text_obj = None
    /\ arc = <<>>
    /\ merge_in = <<>>
    /\ combined = None
    /\ log_messages = <<>>
    /\ font_mesh = None
    /\ scan = <<>>
    /\ exit_code = <<>>
    /\ output = NoOutput
    /\ scene = {}

\* calculate_mesh_volume(ring_obj) on the ring alone
CalculateRingVolume ==
    /\ pc = "ring"
    /\ config.variant = "emboss"
    /\ output' = [output EXCEPT !.report =
                     <<ring_volume(ring_obj, config.ring.radial_segments)>>]
    /\ log_messages' = log_messages \o
           <<Log("INFO", "Calculating mesh volume"),
             Log("INFO", "Mesh volume")>>
    /\ pc' = "done"
    /\ UNCHANGED <<config, ring_obj, text_obj, arc, merge_in, combined,
                   font_mesh, scan, exit_code, scene>>

NextVolume == CreateRing \/ CalculateRingVolume

SpecVolume == InitVolume /\ [][NextVolume]_vars

\* (outer^2 - inner^2) * length of the ring, radii in mm: the analytic
\* volume is pi times it
AnnulusOverPi(ring) ==
    RMul(RSub(RMul(Rat(ring.outer_diameter, 2), Rat(ring.outer_diameter, 2)),
              RMul(Rat(ring.inner_diameter, 2), Rat(ring.inner_diameter, 2))),
         Rat(ring.length, 1))

\* bounds of the computed volume over pi: with x = 2 * pi / R and
\* x - x^3 / 6 <= sin(x) <= x, and pi < 4 in the cubic term,
\* q / 18 * (2 / R) * (1 - (8 / R)^2 / 6) <= volume / pi <= q / 18 * (2 / R)
VolumeOverPiUpper(q, R) == RMul(q, Rat(2, 18 * R))
VolumeOverPiLower(q, R) ==
    RMul(VolumeOverPiUpper(q, R), RSub(<<1, 1>>, Rat(64, 6 * R * R)))

\* the ring of the end-to-end scenario
ScenarioRing(ring) ==
    /\ ring.inner_diameter = 32 /\ ring.outer_diameter = 40
    /\ ring.length = 6
    /\ ring.radial_segments = 256 /\ ring.vertical_segments = 64

\* C25: for the full ring built from RingSpec(inner=16, outer=20, length=6,
\* radial=256, vertical=64) with no text, the volume calculate_mesh_volume
\* returns is within 2% of pi * (outer^2 - inner^2) * length. The reason is
\* that the volume returned for any ring of R radial segments is that of the
\* prism over the regular R-gon annulus, R / 2 * sin(2 * pi / R) *
\* (outer^2 - inner^2) * length, whatever the number of vertical segments.
RingVolumeWithinTwoPercent ==
    /\ (pc = "done" /\ ScenarioRing(config.ring)) =>
          /\ RLeq(RMul(<<98, 100>>, AnnulusOverPi(config.ring)),
                  VolumeOverPiLower(output.report[1],
                                    config.ring.radial_segments))
          /\ RLeq(VolumeOverPiUpper(output.report[1],
                                    config.ring.radial_segments),
                  RMul(<<102, 100>>, AnnulusOverPi(config.ring)))
    /\ pc = "done" =>
          output.report[1] = RMul(<<9 * config.ring.radial_segments, 1>>,
                                  AnnulusOverPi(config.ring))

\* the volume of the scenario's ring has been computed: 66560 triangles
ScenarioRingMeasured ==
    /\ pc = "done"
    /\ ScenarioRing(config.ring)
    /\ Len(ring_obj.faces) = 33280
    /\ output.report # <<>>

\* ---------------------------------------------------- winding of the wedges
\* C26: each wedge mesh, on the start side and on the end side, is
\* coherently wound: every edge shared by two of its faces (lateral/lateral
\* and lateral/cap) is traversed in opposite directions by the two faces.
WedgesCoherent ==
    (pc = "parts" /\ config.variant = "flow") =>
        \A w \in 1..Len(merge_in.wedge_objs) :
            CoherentWinding(merge_in.wedge_objs[w])

\* --------------------------------------------- wedges and the ring's cuts
\* the vertices of a wedge on its ring side: angle_idx 0 in the start
\* wedge, 1 in the end wedge
RingSideVertices(wedge, side) ==
    {k \in 1..Len(wedge.verts) :
        ((k - 1) % 4) \div 2 = (IF side = "start" THEN 0 ELSE 1)}

\* the half angular span of the text, width / (2 * outer radius), is below pi
TextHalfSpanBelowPi ==
    RLt(RDiv(text_width_of(font_mesh),
             RMul(<<2, 1>>, Rat(config.ring.outer_diameter, 2))), Pi)

\* C27: the ring-side face of each wedge lies on the partial ring's cut
\* face: for every text whose half angular span is below pi, the start
\* wedge's ring-side angle (leftmost text angle minus the 2 degree wedge
\* angle) is text_start_angle, the angle of the partial ring's end cut, and
\* the end wedge's ring-side angle (rightmost text angle plus 2 degrees) is
\* text_end_angle, the angle of the partial ring's start cut.
WedgeRingSideOnCut ==
    (/\ pc = "parts" /\ config.variant = "flow"
     /\ Len(merge_in.wedge_objs) = 2
     /\ TextHalfSpanBelowPi) =>
        /\ \A k \in RingSideVertices(merge_in.wedge_objs[1], "start") :
              /\ merge_in.wedge_objs[1].verts[k].co[2] = arc.text_start_angle
              /\ Turned(merge_in.wedge_objs[1].verts[k].co[2]) =
                 Turned(ring_obj.verts[ring_obj.segments_for_arc + 1].angle)
        /\ \A k \in RingSideVertices(merge_in.wedge_objs[2], "end") :
              /\ merge_in.wedge_objs[2].verts[k].co[2] = arc.text_end_angle
              /\ Turned(merge_in.wedge_objs[2].verts[k].co[2]) =
                 Turned(ring_obj.verts[1].angle)

\* both wedges built next to a text 10 mm wide
WedgesBesideWideText ==
    /\ pc = "parts"
    /\ config.variant = "flow"
    /\ Len(merge_in.wedge_objs) = 2
    /\ text_width_of(font_mesh) = <<10, 1>>
    /\ TextHalfSpanBelowPi
    /\ Cardinality(RingSideVertices(merge_in.wedge_objs[1], "start")) =
          2 * z_levels


\* ------------------------------------------------- exit code and stages
\* export_stl has been invoked: it logs one of these two lines whatever it
\* does
ExportInvoked ==
    \/ Logged("INFO", "Successfully exported STL")
    \/ Logged("ERROR", "Failed to export STL")

\* the log lines by which a stage before the export reports its failure
StageFailureReported ==
    \/ Logged("ERROR", "Failed to create text")
    \/ Logged("ERROR", "Failed to merge meshes")
    \/ Logged("ERROR", "Failed to combine geometry")
    \/ Logged("ERROR", "Boolean operation failed completely")
    \/ Logged("ERROR", "Unexpected error")

\* the ring/text combination did what was asked: a joined mesh, or in
\* ring-blender's carved mode a ring the boolean solver has cut
CombinationSucceeded ==
    /\ combined # None
    /\ (config.variant = "blender" /\ config.isCarved) =>
           combined.carved_by # <<>>

\* C28: run() returns 0 only if the ring was built, the text created, the
\* combination (the carve boolean of ring-blender included) succeeded and
\* the STL was written; and export_stl is never invoked in a run in which an
\* earlier stage reported a failure.
ZeroOnlyAfterEveryStage ==
    /\ (pc = "done" /\ exit_code = <<0>>) =>
           /\ \E m \in {"Created ring", "Created partial ring"} :
                  Logged("INFO", m)
           /\ \E m \in {"Created text", "Created embossed text"} :
                  Logged("INFO", m)
           /\ CombinationSucceeded
           /\ output.stl # <<>>
    /\ ExportInvoked => ~StageFailureReported


\* ------------------------------------------------- relaxations and the log
\* a rendered text 64 mm wide: wider than the circumference (62.83 mm) of
\* the ring of 20 mm outer diameter
WideText == ScaledText(<<-3616, 3616>>)

\* the runs of SpecRun and those of the same requests with the wide text
InitRelax ==
    /\ pc = "start"
    /\ \/ /\ config \in FlowRunConfigs
          /\ font_mesh \in RunFontMeshes \cup {WideText}
       \/ /\ config \in EmbossRunConfigs \cup BlenderRunConfigs
          /\ font_mesh \in {ScaledText(<<-565, 565>>), EmptyText, WideText}
    /\ ring_obj = None
    /\ text_obj = None
    /\ arc = <<>>
    /\ merge_in = <<>>
    /\ combined = None
    /\ log_messages = <<>>
    /\ scan = <<>>
    /\ exit_code = <<>>
    /\ output = NoOutput
    /\ scene = StartupScene

SpecRelax == InitRelax /\ [][NextRun]_vars

OuterRadiusOf(cfg) ==
    Rat(IF cfg.variant = "blender" THEN cfg.ringOuterDiameter
        ELSE cfg.ring.outer_diameter, 2)

TextCreated ==
    \E m \in {"Created text", "Created embossed text"} : Logged("INFO", m)

\* the text stage went on with a text wider than the circumference
WiderThanCircumference ==
    /\ TextCreated
    /\ RLt(Pi, RDiv(text_width_of(font_mesh),
                    RMul(<<2, 1>>, OuterRadiusOf(config))))

\* ring-blender went on with the default font
FontFellBack ==
    /\ config.variant = "blender"
    /\ TextCreated
    /\ ~Logged("INFO", "Loaded font")

\* the bridge stage went on with an empty boundary cluster
ClusterEmpty ==
    /\ scan # <<>>
    /\ \/ scan.leftmost_vertices = <<>>
       \/ scan.rightmost_vertices = <<>>

\* the bridge stage ended without wedges
WedgesMissing ==
    /\ Logged("INFO", "Creating transition wedges")
    /\ ~Logged("INFO", "Created transition wedges")

\* the EXACT solver did not carve the ring
BooleanFailed ==
    /\ Logged("INFO", "Applying boolean difference")
    /\ \/ combined.carved_by = <<>>
       \/ combined.carved_by[2] # "EXACT"

\* the volume was asked for and not obtained
VolumeFailed ==
    /\ Logged("INFO", "Calculating mesh volume")
    /\ ~Logged("INFO", "Mesh volume")

\* C22: a finished run in which a stage relaxed a precondition or took a
\* fallback (default font, text wider than the circumference, empty boundary
\* cluster, missing wedges, failed boolean, failed volume computation) has at
\* least one WARNING or ERROR message in its log.
RelaxationsSurface ==
    (/\ pc = "done"
     /\ \/ WiderThanCircumference
        \/ FontFellBack
        \/ ClusterEmpty
        \/ WedgesMissing
        \/ BooleanFailed
        \/ VolumeFailed) =>
        \E i \in 1..Len(log_messages) :
            log_messages[i][1] \in {"WARNING", "ERROR"}


\* ------------------------------------------- mesh repair (repair-OpenVDB)
\* In the runs of MeshRepairOpenVDB.repair, ring_obj is self.original_mesh,
\* combined is self.repaired_mesh, scan holds mesh_stats, voxel_size and
\* is_valid, log_messages the lines printed, exit_code the value returned.

\* a line printed on standard output
Stdout(message) == <<"stdout", message>>

Printed(message) == Stdout(message) \in Range(log_messages)

\* the keyword arguments main() passes to repair()
RepairConfigs ==
    [variant              : {"repair"},
     printing_type        : {"FDM", "SLA", "GENERAL"},
     nozzle_diameter      : {<<2, 5>>},
     layer_height         : {<<1, 10>>},
     use_multi_resolution : BOOLEAN,
     preserve_features    : BOOLEAN,
     custom_voxel_size    : {<<>>, <<<<1, 2>>>>},
     pre_process          : BOOLEAN,
     apply_closing        : BOOLEAN,
     smooth_iterations    : {2}]

\* what analyze_mesh measures on the imported mesh
InputMeshes ==
    [bbox_diagonal      : {<<100, 1>>, <<20, 1>>},
     min_edge_length    : {<<1, 10>>},
     avg_edge_length    : {<<2, 1>>},
     non_manifold_count : {0, 101},
     hole_count         : {0, 2},
     vertex_count       : {500},
     face_count         : {1000, 100001},
     edge_count         : {1000}]

\* the non-manifold and boundary edges the host may leave in a mesh
Defects == [non_manifold : {0, 1}, boundaries : {0, 1}]

InitRepair ==
    /\ pc = "repair"
    /\ config \in RepairConfigs
    /\ ring_obj = None
    /\ text_obj = None
    /\ arc = <<>>
    /\ merge_in = <<>>
    /\ combined = None
    /\ log_messages = <<>>
    /\ font_mesh = None
    /\ scan = [mesh_stats |-> <<>>, voxel_size |-> <<>>, is_valid |-> <<>>]
    /\ exit_code = <<>>
    /\ output = NoOutput
    /\ scene = StartupScene

\* calculate_voxel_size
calculate_voxel_size(mesh_stats, printing_type, nozzle_diameter, layer_height, custom_voxel_size) ==
    IF custom_voxel_size # <<>> /\ RLt(<<0, 1>>, custom_voxel_size[1])
    THEN custom_voxel_size[1]
    ELSE
    LET bbox_diagonal   == mesh_stats.bbox_diagonal
        min_edge_length == mesh_stats.min_edge_length
        base_voxel_size == RMul(bbox_diagonal, <<2, 1000>>)
        detail == IF RLt(min_edge_length, RMul(base_voxel_size, <<2, 1>>))
                  THEN RMul(min_edge_length, <<1, 2>>)
                  ELSE base_voxel_size
        edges  == IF mesh_stats.edge_count > 1 THEN mesh_stats.edge_count
                  ELSE 1
        damage_score == Rat(mesh_stats.non_manifold_count +
                            mesh_stats.hole_count, edges)
        voxel_size ==
            IF printing_type = "FDM" THEN RMul(nozzle_diameter, <<3, 4>>)
            ELSE IF printing_type = "SLA" THEN RMul(layer_height, <<3, 1>>)
            ELSE IF RLt(<<1, 10>>, damage_score)
                 THEN RMul(detail, <<3, 2>>)
                 ELSE detail
        min_voxel == RMul(bbox_diagonal, <<1, 10000>>)
        max_voxel == RMul(bbox_diagonal, <<1, 100>>)
    IN  RMax({min_voxel, RMin({max_voxel, voxel_size})})

Modifier(name, voxel_size) == [name |-> name, voxel_size |-> voxel_size]

\* apply_morphological_closing: dilate, remesh, erode
apply_morphological_closing(obj, voxel_size) ==
    [obj EXCEPT !.modifiers = @ \o <<Modifier("Dilate", voxel_size),
                                     Modifier("Clean_Dilate", voxel_size),
                                     Modifier("Erode", voxel_size)>>]

\* apply_smoothing
apply_smoothing(obj, iterations, voxel_size) ==
    [obj EXCEPT !.modifiers = Append(@, Modifier("Smooth", voxel_size))]

\* apply_voxel_remesh: one pass of the Remesh modifier in VOXEL mode, then
\* the closing and the smoothing asked for; `left` is what the host leaves
\* of non-manifold and boundary edges
apply_voxel_remesh(obj, voxel_size, apply_closing, smooth_iterations, left) ==
    LET remeshed == [obj EXCEPT
                       !.modifiers = Append(@, Modifier("OpenVDB_Remesh",
                                                        voxel_size)),
                       !.defects = left]
        closed   == IF apply_closing
                    THEN apply_morphological_closing(remeshed, voxel_size)
                    ELSE remeshed
    IN  IF smooth_iterations > 0
        THEN apply_smoothing(closed, smooth_iterations, voxel_size)
        ELSE closed

\* the lines apply_voxel_remesh prints
RemeshLog(apply_closing, smooth_iterations) ==
    <<Stdout("Applying voxel remesh")>> \o
    (IF apply_closing THEN <<Stdout("Applying morphological closing")>>
     ELSE <<>>) \o
    (IF smooth_iterations > 0 THEN <<Stdout("Applying smoothing")>>
     ELSE <<>>) \o
    <<Stdout("Voxel remesh complete")>>

\* multi_resolution_repair: a coarse and a fine pass on a duplicate, which
\* replaces the original
multi_resolution_repair(obj, mesh_stats, left) ==
    LET coarse_voxel_size == RMul(mesh_stats.bbox_diagonal, <<5, 1000>>)
        fine_voxel_size   == RMul(mesh_stats.bbox_diagonal, <<1, 1000>>)
        coarse_obj == [obj EXCEPT !.name = "Coarse_Repair"]
        coarse == apply_voxel_remesh(coarse_obj, coarse_voxel_size, TRUE, 0,
                                     left)
        fine   == apply_voxel_remesh(coarse, fine_voxel_size, FALSE, 2, left)
    IN  [fine EXCEPT !.name = "Repaired_Mesh"]

\* validate_repair
validate_repair(obj) ==
    obj.defects.non_manifold = 0 /\ obj.defects.boundaries = 0

ValidationLog(is_valid) ==
    <<Stdout("Validating repaired mesh"),
      Stdout(IF is_valid THEN "Overall Valid: True"
             ELSE "Overall Valid: False")>>

aggressive_voxel_size_Same(voxel_size) == voxel_size

\* aggressive_voxel_size = voxel_size * 2
aggressive_voxel_size(voxel_size) == RMul(voxel_size, <<2, 1>>)

repair_static == <<config, text_obj, arc, merge_in, font_mesh>>

\* repair: the banner and clear_scene
RepairClearScene ==
    /\ pc = "repair"
    /\ scene' = {}
    /\ log_messages' = Append(log_messages,
                              Stdout("Starting OpenVDB Mesh Repair Process"))
    /\ pc' = "cleared"
    /\ UNCHANGED <<repair_static, ring_obj, combined, scan, exit_code,
                   output>>

\* import_stl: raises when the file does not exist or nothing was imported
ImportStl ==
    /\ pc = "cleared"
    /\ \E found \in BOOLEAN, mesh \in InputMeshes :
        IF ~found
        THEN /\ mesh = CHOOSE m \in InputMeshes : TRUE
             /\ log_messages' = Append(log_messages,
                                       Stdout("Importing STL from"))
             /\ pc' = "repair_raised"
             /\ UNCHANGED <<ring_obj, scene>>
        ELSE /\ ring_obj' = [name      |-> "Original_Mesh",
                             measured  |-> mesh,
                             defects   |->
                                [non_manifold |-> mesh.non_manifold_count,
                                 boundaries   |-> mesh.hole_count],
                             modifiers |-> <<>>]
             /\ scene' = Link(scene, "Original_Mesh")
             /\ log_messages' = log_messages \o
                   <<Stdout("Importing STL from"),
                     Stdout("Successfully imported")>>
             /\ pc' = "imported"
    /\ UNCHANGED <<repair_static, combined, scan, exit_code, output>>

\* analyze_mesh, and the edge count repair() adds to its result
AnalyzeMesh ==
    /\ pc = "imported"
    /\ scan' = [scan EXCEPT !.mesh_stats = ring_obj.measured]
    /\ log_messages' = Append(log_messages, Stdout("Mesh Analysis"))
    /\ pc' = "analyzed"
    /\ UNCHANGED <<repair_static, ring_obj, combined, exit_code, output,
                   scene>>

\* pre_process_mesh, when asked for: the mesh operators may raise
PreProcessMesh ==
    /\ pc = "analyzed"
    /\ config.pre_process
    /\ \E raises \in BOOLEAN :
        /\ log_messages' = log_messages \o
              <<Stdout("Pre-processing mesh")>> \o
              (IF raises THEN <<>>
               ELSE <<Stdout("Pre-processing complete")>>)
        /\ pc' = IF raises THEN "repair_raised" ELSE "preprocessed"
    /\ UNCHANGED <<repair_static, ring_obj, combined, scan, exit_code,
                   output, scene>>

CalculateVoxelSize ==
    /\ \/ pc = "preprocessed"
       \/ pc = "analyzed" /\ ~config.pre_process
    /\ scan' = [scan EXCEPT !.voxel_size =
                  calculate_voxel_size(scan.mesh_stats, config.printing_type,
                                       config.nozzle_diameter,
                                       config.layer_height,
                                       config.custom_voxel_size)]
    /\ log_messages' = Append(log_messages,
           Stdout(IF config.custom_voxel_size # <<>>
                  THEN "Using custom voxel size"
                  ELSE "Calculated Voxel Size"))
    /\ pc' = "sized"
    /\ UNCHANGED <<repair_static, ring_obj, combined, exit_code, output,
                   scene>>

\* the main remesh: multi_resolution_repair or one apply_voxel_remesh
ApplyRepairStrategy ==
    /\ pc = "sized"
    /\ \E left \in Defects, raises \in BOOLEAN :
        LET mesh_stats == scan.mesh_stats
            multi   == /\ config.use_multi_resolution
                       /\ mesh_stats.non_manifold_count > 100
            closing == config.apply_closing \/ mesh_stats.hole_count > 0
            smooth  == IF config.preserve_features
                       THEN config.smooth_iterations ELSE 0
        IN  IF raises
            THEN /\ left = CHOOSE d \in Defects : TRUE
                 /\ log_messages' = log_messages \o
                       (IF multi
                        THEN <<Stdout("Starting multi-resolution repair")>>
                        ELSE <<>>) \o
                       <<Stdout("Applying voxel remesh")>>
                 /\ pc' = "repair_raised"
                 /\ UNCHANGED <<combined, scene>>
            ELSE IF multi
            THEN /\ combined' = multi_resolution_repair(ring_obj, mesh_stats,
                                                        left)
                 /\ scene' = Link(scene \ {Object(ring_obj.name, "self")},
                                  "Repaired_Mesh")
                 /\ log_messages' = log_messages \o
                       <<Stdout("Starting multi-resolution repair")>> \o
                       RemeshLog(TRUE, 0) \o RemeshLog(FALSE, 2)
                 /\ pc' = "remeshed"
            ELSE /\ combined' = apply_voxel_remesh(ring_obj, scan.voxel_size,
                                                   closing, smooth, left)
                 /\ log_messages' = log_messages \o RemeshLog(closing, smooth)
                 /\ pc' = "remeshed"
                 /\ UNCHANGED scene
    /\ UNCHANGED <<repair_static, ring_obj, scan, exit_code, output>>

\* apply_feature_preservation, when asked for
ApplyFeaturePreservation ==
    /\ pc = "remeshed"
    /\ config.preserve_features
    /\ \E left \in Defects :
        LET decimate == scan.mesh_stats.face_count > 100000
        IN  /\ ~decimate => left = combined.defects
            /\ combined' = [combined EXCEPT
                 !.modifiers = @ \o
                    <<Modifier("WeightedNormal", <<>>)>> \o
                    (IF decimate THEN <<Modifier("Decimate", <<>>)>>
                     ELSE <<>>),
                 !.defects = left]
    /\ log_messages' = Append(log_messages,
                              Stdout("Applying feature preservation"))
    /\ pc' = "preserved"
    /\ UNCHANGED <<repair_static, ring_obj, scan, exit_code, output, scene>>

\* is_valid = self.validate_repair(self.repaired_mesh)
ValidateRepair ==
    /\ \/ pc = "preserved"
       \/ pc = "remeshed" /\ ~config.preserve_features
    /\ scan' = [scan EXCEPT !.is_valid = <<validate_repair(combined)>>]
    /\ log_messages' = log_messages \o
                       ValidationLog(validate_repair(combined))
    /\ pc' = "validated"
    /\ UNCHANGED <<repair_static, ring_obj, combined, exit_code, output,
                   scene>>

\* the branch `if not is_valid`: one more remesh and a second validation,
\* whose result is dropped
AdditionalRepairPass ==
    /\ pc = "validated"
    /\ scan.is_valid = <<FALSE>>
    /\ \E left \in Defects, raises \in BOOLEAN :
        IF raises
        THEN /\ left = CHOOSE d \in Defects : TRUE
             /\ log_messages' = log_messages \o
                   <<Stdout("Warning: Mesh may still have issues"),
                     Stdout("Applying voxel remesh")>>
             /\ pc' = "repair_raised"
             /\ UNCHANGED combined
        ELSE \E again \in {apply_voxel_remesh(
                               combined,
                               aggressive_voxel_size(scan.voxel_size),
                               TRUE, 3, left)} :
             /\ combined' = again
             /\ log_messages' = log_messages \o
                   <<Stdout("Warning: Mesh may still have issues")>> \o
                   RemeshLog(TRUE, 3) \o
                   ValidationLog(validate_repair(again))
             /\ pc' = "revalidated"
    /\ UNCHANGED <<repair_static, ring_obj, scan, exit_code, output, scene>>

\* export_stl and the return of repair()
ExportRepairedStl ==
    /\ \/ pc = "revalidated"
       \/ pc = "validated" /\ scan.is_valid = <<TRUE>>
    /\ \E raises \in BOOLEAN :
        IF raises
        THEN /\ log_messages' = Append(log_messages,
                                       Stdout("Exporting repaired mesh to"))
             /\ pc' = "repair_raised"
             /\ UNCHANGED <<exit_code, output>>
        ELSE /\ output' = [stl |-> <<combined>>, report |-> <<>>]
             /\ log_messages' = log_messages \o
                   <<Stdout("Exporting repaired mesh to"),
                     Stdout("Export complete"),
                     Stdout("Repair Complete!")>>
             /\ exit_code' = <<TRUE>>
             /\ pc' = "done"
    /\ UNCHANGED <<repair_static, ring_obj, combined, scan, scene>>

\* the except clause of repair()
RepairFails ==
    /\ pc = "repair_raised"
    /\ log_messages' = Append(log_messages, Stdout("Error during repair"))
    /\ exit_code' = <<FALSE>>
    /\ pc' = "done"
    /\ UNCHANGED <<repair_static, ring_obj, combined, scan, output, scene>>

NextRepair ==
    \/ RepairClearScene
    \/ ImportStl
    \/ AnalyzeMesh
    \/ PreProcessMesh
    \/ CalculateVoxelSize
    \/ ApplyRepairStrategy
    \/ ApplyFeaturePreservation
    \/ ValidateRepair
    \/ AdditionalRepairPass
    \/ ExportRepairedStl
    \/ RepairFails

SpecRepair == InitRepair /\ [][NextRepair]_vars

\* the positions in the output at which a line was printed
PrintedAt(message) ==
    {i \in 1..Len(log_messages) : log_messages[i] = Stdout(message)}

\* the voxel sizes of the remesh passes applied to the repaired mesh
RemeshSizes ==
    LET passes == SelectSeq(combined.modifiers,
                            LAMBDA m : m.name = "OpenVDB_Remesh")
    IN  [i \in 1..Len(passes) |-> passes[i].voxel_size]

\* the passes of the main remesh
MainPasses ==
    IF config.use_multi_resolution /\ scan.mesh_stats.non_manifold_count > 100
    THEN 2 ELSE 1

\* C30: in repair, the first validation comes after the main remesh; when
\* it finds the mesh invalid exactly one more remesh pass, with twice the
\* voxel size, and then a second validation follow, otherwise none; the STL
\* is exported whatever the second validation says, and repair returns True
\* in every run in which nothing raised.
RepairValidatesThenExports ==
    LET validations == PrintedAt("Validating repaired mesh")
        remeshes    == PrintedAt("Applying voxel remesh")
        raised      == pc = "repair_raised" \/ Printed("Error during repair")
    IN  /\ \A v \in validations :
             Cardinality({r \in remeshes : r < v}) >= MainPasses
        /\ (pc \in {"validated", "revalidated", "done"} /\ ~raised) =>
             \E first \in validations :
                /\ \A v \in validations : first <= v
                /\ Cardinality({r \in remeshes : r < first}) = MainPasses
                /\ IF scan.is_valid = <<TRUE>> \/ pc = "validated"
                   THEN /\ validations = {first}
                        /\ Len(RemeshSizes) = MainPasses
                   ELSE /\ Cardinality({r \in remeshes : r > first}) = 1
                        /\ Len(RemeshSizes) = MainPasses + 1
                        /\ RemeshSizes[Len(RemeshSizes)] =
                              RMul(<<2, 1>>, scan.voxel_size)
                        /\ \E second \in validations :
                              /\ validations = {first, second}
                              /\ \A r \in remeshes : r < second
        /\ (pc = "done" /\ ~raised) =>
              /\ exit_code = <<TRUE>>
              /\ output.stl = <<combined>>
              /\ Printed("Export complete")

\* a run whose second validation still found the mesh invalid, and which
\* exported it and returned True
InvalidMeshExported ==
    /\ pc = "done"
    /\ exit_code = <<TRUE>>
    /\ scan.is_valid = <<FALSE>>
    /\ ~validate_repair(combined)
    /\ Cardinality(PrintedAt("Validating repaired mesh")) = 2
    /\ output.stl = <<combined>>

====
